---- MODULE Spec2Model ----
(***************************************************************************)
(* Stream orchestration and replay protocol of the chat backend: the       *)
(* per-chat durable log (a Redis stream), the active-task marker and the   *)
(* revoked flag (Redis keys), the queued-message slot, the worker that     *)
(* produces events (StreamOrchestrator), the context-usage tracker and the *)
(* SSE reader that replays and tails the log.  One chat is modelled: every *)
(* key below is the key of that chat.                                      *)
(***************************************************************************)
EXTENDS Integers, Sequences, FiniteSets, TLC

\* ------------------------------------------------------------------ bounds
\* Spec: events the agent emits, worker tasks, user-initiated completions,
\* queue submissions, context-usage broadcasts, cancel requests.
MaxEvents == 1
MaxTasks == 3
MaxStarts == 2
MaxQueued == 1
MaxBroadcasts == 1
MaxCancels == 1
\* InjectSpec
InjectMaxEvents == 3
InjectMaxTasks == 2
InjectMaxSubmits == 2
\* QueueSpec
QueueMaxSubmits == 3
\* ReaderSpec: also the SSE connections of the client.
ReaderMaxEvents == 2
ReaderMaxTasks == 2
ReaderMaxStarts == 2
ReaderMaxCancels == 1
MaxConnects == 2
\* OutcomeSpec
OutcomeMaxEvents == 2
OutcomeMaxTasks == 3
OutcomeMaxSubmits == 2
OutcomeMaxCancels == 1
\* SandboxSpec: the retention cap of the run (MAX_CHECKPOINTS_PER_SANDBOX is
\* 20), checkpoints created, files written, restores, seconds elapsed.
RetentionCap == 2
SandboxMaxCheckpoints == 3
SandboxMaxWrites == 3
SandboxMaxRestores == 1
SandboxMaxTicks == 1
\* FrameSpec: frames written, bytes of a payload, the max_buffer_size option
\* of the transport (DEFAULT_MAX_BUFFER_SIZE is 10 MB).
MaxFrames == 2
FrameMaxPayload == 3
FrameMaxBuffer == 2
\* TransportFairSpec: chunks the process writes, calls of write and end_input.
TransportMaxChunks == 33
TransportMaxCalls == 2
\* ProviderSpec: calls made on the provider, PTY sessions created.
ProviderMaxOps == 3
ProviderMaxPtys == 2
\* RunSpec: scheduled tasks run.
RunMaxTasks == 2
\* SyncSpec: checkpoints, writes.
SyncMaxCheckpoints == 3
SyncMaxWrites == 1
\* ParseSpec: chunks per text, buffer size.
ParseMaxChunks == 3
ParseMaxBuffer == 40
\* ResubmitSpec: submissions.
ResubmitMaxSubmits == 3
\* PopSpec: submissions and edits, pops.
PopMaxSubmits == 3
PopMaxPops == 2
\* CursorFairSpec (with the bounds of ReaderFairSpec)
CursorMaxConnects == 2
\* ReaderFairSpec
FairMaxEvents == 1
FairMaxTasks == 1
FairMaxStarts == 1
FairMaxConnects == 1
FairMaxCancels == 1

\* -------------------------------------------------------- program constants
XREAD_COUNT == 10       \* count= of the live XREAD
STREAM_MAX_LEN == 10000 \* maxlen= of every XADD
UPSERT_ATTEMPTS == 5    \* stop_after_attempt of upsert_message

\* ------------------------------------------------------------------- values
NoTask == 0             \* the task key is absent
NoCursor == 0           \* no Last-Event-ID supplied / no id seen yet
Malformed == -1         \* a Last-Event-ID that is not a stream id
TERMINAL_KINDS == {"complete", "error"}
TERMINAL_STATUSES == {"COMPLETED", "FAILED", "INTERRUPTED"}

\* StreamEvent: type and tool.parent_id ("" when the tool has no parent or the
\* event has no tool).
Ev(type, parent) == [type |-> type, parent |-> parent]
NoEvent == Ev("", "")
Events ==
    { Ev("assistant_text", ""), Ev("tool_started", "p1"),
      Ev("tool_completed", ""), Ev("tool_completed", "p1") }
SystemEvent == Ev("system", "")
TextEvents == { Ev("assistant_text", "") }

Clients == {"u1", "u2"}     \* HTTP clients submitting to the queue
Contents == {"a", "b"}      \* submitted message contents
Errors == {"agent error", "transport closed"}   \* str(exc) of a stream fault

VARIABLES
    \* Redis
    stream,         \* chat:{id}:stream, the durable log: Seq of entries
    clock,          \* last stream id handed out (ids are time-ordered)
    taskKey,        \* chat:{id}:task, the active-task marker: a task id or NoTask
    revokedKey,     \* chat:{id}:revoked
    queueKey,       \* chat:{id}:queue: <<>> or <<message>>
    dirty,          \* clients whose WATCH of the queue key has been invalidated
    \* worker side
    exec,           \* Seq of executions (process_chat tasks); the index is the task id
    messages,       \* assistant Message rows: Seq of [status, content]
    pulled,         \* events pulled from the agent so far
    starts,         \* chat completions initiated so far
    tracker,        \* ContextUsageTracker.poll_while_streaming: its position
    trackerPublishes,
    poll,           \* get_stream_status: its position
    \* queue clients
    upsert,         \* [Clients -> position of upsert_message]
    submits,
    nextQueueId,
    \* reader side
    reader,         \* _create_event_stream: its position and locals
    cancelEvent,    \* the asyncio.Event shared with the monitor
    monitor,        \* _monitor_stream_cancellation: its position
    client,         \* the browser: what it received, its Last-Event-ID
    connects,
    cancels,
    \* history
    hist,           \* what happened, for stating the properties
    lim,            \* the bounds of the specification being checked (never changes)
    \* sandbox side
    sandbox,        \* one sandbox: its home tree and its checkpoint directories
    sock,           \* DockerSandboxTransport: the socket, the reader's buffer, the queue
    provider        \* LocalDockerProvider: its caches, its PTY table, the runtime

redisVars == <<stream, clock, taskKey, revokedKey>>
queueVars == <<queueKey, dirty, upsert, submits, nextQueueId>>
workerVars == <<exec, messages, pulled, starts>>
trackerVars == <<tracker, trackerPublishes>>
readerVars == <<reader, cancelEvent, monitor, client, connects>>
vars == <<stream, clock, taskKey, revokedKey, queueKey, dirty, exec, messages,
          pulled, starts, tracker, trackerPublishes, poll, upsert,
          submits, nextQueueId, reader, cancelEvent, monitor, client, connects,
          cancels, hist, lim, sandbox, sock, provider>>
boxVars == <<sandbox, sock, provider>>
chatVars == <<stream, clock, taskKey, revokedKey, queueKey, dirty, exec, messages,
              pulled, starts, tracker, trackerPublishes, poll, upsert,
              submits, nextQueueId, reader, cancelEvent, monitor, client, connects,
              cancels, hist>>

\* ------------------------------------------------------------------ helpers
Last(s) == s[Len(s)]

IsTerminal(e) == e.kind \in TERMINAL_KINDS

RECURSIVE FirstTerminal(_, _)
\* Index of the first terminal entry of s at or after i, else 0.
FirstTerminal(s, i) ==
    IF i > Len(s) THEN 0
    ELSE IF IsTerminal(s[i]) THEN i
    ELSE FirstTerminal(s, i + 1)

\* ------------------------------------------------------------ the durable log
\* One entry of the Redis stream.  event/ref/text are the payload: the stream
\* event of a content entry, the new assistant message id of a queue entry, the
\* message of an error entry.  by is the writer (a task id, 0 for the tracker).
Entry(id, kind, event, ref, text, by) ==
    [id |-> id, kind |-> kind, event |-> event, ref |-> ref, text |-> text, by |-> by]

\* XADD ... MAXLEN ~ STREAM_MAX_LEN: append under the next id, drop the oldest
\* entries beyond the cap.
XAdd(log, entry) ==
    LET s == Append(log.s, [entry EXCEPT !.id = log.c + 1])
    IN  [s |-> IF Len(s) > STREAM_MAX_LEN
               THEN SubSeq(s, Len(s) - STREAM_MAX_LEN + 1, Len(s))
               ELSE s,
         c |-> log.c + 1]

Log == [s |-> stream, c |-> clock]

\* StreamPublisher.publish and its wrappers, as functions of the log.
Publish(log, kind, event, ref, text, by) ==
    XAdd(log, Entry(0, kind, event, ref, text, by))
PublishEvent(log, event, by) == Publish(log, "content", event, 0, "", by)
PublishComplete(log, by) == Publish(log, "complete", NoEvent, 0, "", by)
\* The error entry carries a fixed text in place of the message.
PublishErrorGeneric(log, error, by) == Publish(log, "error", NoEvent, 0, "error", by)
PublishError(log, error, by) == Publish(log, "error", NoEvent, 0, error, by)
\* Every queue notice is published as queue_injected.
PublishQueueEventInline(log, ref, inline, by) ==
    Publish(log, "queue_injected", NoEvent, ref, "", by)
PublishQueueEvent(log, ref, inline, by) ==
    Publish(log, IF inline THEN "queue_injected" ELSE "queue_processing",
            NoEvent, ref, "", by)
\* The log is left as it is.
KeepStream(log) == log

\* StreamPublisher.clear_stream, and the DEL of connect.
ClearStream(log) == [s |-> <<>>, c |-> log.c]

\* ---------------------------------------------------------------- messages
NewMessage == [status |-> "IN_PROGRESS", content |-> <<>>]
\* StreamOrchestrator._save_message_content
SaveMessageContent(msgs, id, events, status) ==
    IF id = 0 \/ events = <<>> THEN msgs
    ELSE [msgs EXCEPT ![id] = [status |-> status, content |-> events]]
\* StreamOrchestrator._update_message_status
UpdateMessageStatus(msgs, id, status) ==
    IF id = 0 THEN msgs ELSE [msgs EXCEPT ![id].status = status]

\* ------------------------------------------------------------------- queue
\* Strings are sequences of characters; the separator of repeated submissions.
Str(c) == <<c>>
AppendContent(old, new) == old \o <<"\n">> \o new
\* Every client between its WATCH and its EXEC sees the key modified.
Touched == dirty \cup {c \in Clients : upsert[c].pc \in {"read", "update"}}
\* A pop that reads and deletes without the key counting as modified.
PopUnnoticed == [msg |-> queueKey, key |-> <<>>, dirty |-> dirty]
\* QueueService.pop_next_message: GETDEL.
PopNextMessage == [msg |-> queueKey, key |-> <<>>,
                   dirty |-> IF queueKey = <<>> THEN dirty ELSE Touched]

\* The event type alone decides, nested tools included.
ShouldTryInjectionAnyTool(event) == event.type = "tool_completed"

\* QueueInjector.should_try_injection
ShouldTryInjection(event) ==
    IF event.type # "tool_completed" THEN FALSE
    ELSE IF event.parent # "" THEN FALSE
    ELSE TRUE

\* ------------------------------------------------------------ the transport
\* BaseSandboxTransport.write: raises unless the channel is ready and its input
\* side is still open.
TransportWritable(x) == x.ready /\ ~x.stdinClosed

\* ------------------------------------------------------------------ history
\* A non-empty log deleted counts as a log clear.
NoteClear(h, log) == IF log.s = <<>> THEN h ELSE [h EXCEPT !.clears = @ + 1]

\* --------------------------------------------------------------- executions
NewExec(asst, cont) ==
    [pc |-> "queued", asst |-> asst, events |-> <<>>, cont |-> cont,
     ready |-> FALSE, stdinClosed |-> FALSE, written |-> <<>>,
     outcome |-> "", seg |-> <<>>, raised |-> "", prompt |-> <<>>]

\* ChatService.initiate_chat_completion, the caller layer: refuses a start while
\* the active-task marker is present, else creates the assistant row and
\* dispatches process_chat.
InitiateChatCompletion ==
    /\ starts < lim.starts
    /\ Len(exec) < lim.tasks
    /\ taskKey = NoTask
    /\ starts' = starts + 1
    /\ messages' = Append(messages, NewMessage)
    /\ exec' = Append(exec, NewExec(Len(messages) + 1, FALSE))
    /\ UNCHANGED <<redisVars, queueVars, pulled, trackerVars, poll, readerVars,
                   cancels, hist, lim, boxVars>>

\* connect that deletes the log whatever the continuation flag says.
WorkerConnectDeleting(t) ==
    /\ exec[t].pc = "queued"
    /\ stream' = ClearStream(Log).s
    /\ taskKey' = t
    /\ exec' = [exec EXCEPT ![t].pc = "streaming", ![t].ready = TRUE]
    /\ hist' = NoteClear(hist, Log)
    /\ UNCHANGED <<clock, revokedKey, queueVars, messages, pulled, starts,
                   trackerVars, poll, readerVars, cancels, lim, boxVars>>

\* run_chat_stream up to the stream loop: StreamPublisher.connect deletes the
\* log (unless this is a queue continuation) and writes the marker; the
\* transport is opened.
WorkerConnect(t) ==
    /\ exec[t].pc = "queued"
    /\ stream' = IF exec[t].cont THEN stream ELSE ClearStream(Log).s
    /\ taskKey' = t
    /\ exec' = [exec EXCEPT ![t].pc = "streaming", ![t].ready = TRUE]
    /\ hist' = IF exec[t].cont THEN hist ELSE NoteClear(hist, Log)
    /\ UNCHANGED <<clock, revokedKey, queueVars, messages, pulled, starts,
                   trackerVars, poll, readerVars, cancels, lim, boxVars>>

\* One iteration of the loop of _process_stream_events: pull an event,
\* accumulate and publish it, and after a top-level tool completion
\* QueueInjector.check_and_inject.
ProcessEvent(t, e) ==
    /\ exec[t].pc = "streaming"
    /\ pulled < lim.events
    /\ pulled' = pulled + 1
    /\ \E added \in lim.xadd :
       LET x == exec[t]
           events1 == Append(x.events, e)
           seg1 == Append(x.seg, e)
           \* publish passes over a failed XADD
           log1 == IF added THEN PublishEvent(Log, e, t) ELSE Log
           try == ShouldTryInjection(e)
           pop == PopNextMessage
           newId == Len(messages) + 1
           log2 == PublishQueueEvent(log1, newId, TRUE, t)
           hist1 == IF try THEN [hist EXCEPT !.injectTried = @ \cup {e}] ELSE hist
       IN  IF ~try \/ pop.msg = <<>>
           THEN /\ exec' = [exec EXCEPT ![t].events = events1, ![t].seg = seg1]
                /\ stream' = log1.s
                /\ clock' = log1.c
                /\ hist' = hist1
                /\ UNCHANGED <<messages, queueKey, dirty>>
           ELSE IF ~TransportWritable(x)
           THEN \* write raised: the failure is logged, the loop goes on
                /\ exec' = [exec EXCEPT ![t].events = events1, ![t].seg = seg1]
                /\ messages' = Append(messages, NewMessage)
                /\ stream' = log2.s
                /\ clock' = log2.c
                /\ queueKey' = pop.key
                /\ dirty' = pop.dirty
                /\ hist' = [hist1 EXCEPT !.popped = TRUE]
           ELSE /\ exec' = [exec EXCEPT
                              ![t].events = <<>>, ![t].seg = <<>>,
                              ![t].asst = newId,
                              ![t].written = Append(@, pop.msg[1].content)]
                /\ messages' = Append(
                       SaveMessageContent(messages, x.asst, events1, "COMPLETED"),
                       NewMessage)
                /\ stream' = ClearStream(log2).s
                /\ clock' = log2.c
                /\ queueKey' = pop.key
                /\ dirty' = pop.dirty
                /\ hist' = [NoteClear(hist1, log2) EXCEPT
                              !.popped = TRUE,
                              !.injections = Append(@,
                                  [task |-> t, old |-> x.asst, new |-> newId,
                                   seen |-> seg1, at |-> log2.c,
                                   content |-> pop.msg[1].content])]
    /\ UNCHANGED <<taskKey, revokedKey, upsert, submits, nextQueueId, starts,
                   trackerVars, poll, readerVars, cancels, lim, boxVars>>

\* The FAILED branch of process_stream: publish the error, mark the message,
\* persist what was accumulated.
Failed(t, error) ==
    /\ stream' = PublishError(Log, error, t).s
    /\ clock' = PublishError(Log, error, t).c
    /\ messages' = SaveMessageContent(
                       UpdateMessageStatus(messages, exec[t].asst, "FAILED"),
                       exec[t].asst, exec[t].events, "FAILED")
    /\ exec' = [exec EXCEPT ![t].pc = "cleanup", ![t].outcome = "FAILED",
                             ![t].raised = error]
    /\ UNCHANGED <<queueVars, hist>>

\* The stream raised (a transport or agent error) while being pulled.
StreamRaises(t, error) ==
    /\ exec[t].pc = "streaming"
    /\ Failed(t, error)
    /\ UNCHANGED <<taskKey, revokedKey, pulled, starts, trackerVars, poll,
                   readerVars, cancels, lim, boxVars>>

\* _create_checkpoint_if_needed: a checkpoint of the sandbox tied to the
\* assistant message is attempted; it is made, or the failure is logged.
CheckpointAttempt(asst, ok) == [msg |-> asst, ok |-> ok]

\* StreamOrchestrator._create_queue_messages: a user row holding the queued
\* content and an IN_PROGRESS assistant row; asst is the id of the latter.
CreateQueueMessages(msgs, next) ==
    [msgs |-> Append(msgs, NewMessage), user |-> next.content, asst |-> Len(msgs) + 1]

\* StreamOrchestrator._spawn_queue_continuation_task: process_chat.delay with
\* the queued content as prompt and is_queue_continuation=True.
SpawnQueueContinuation(execs, next, asst) ==
    Append(execs, [NewExec(asst, TRUE) EXCEPT !.prompt = next.content])

\* The agent process of a streaming execution has exited: _monitor_process
\* clears _ready while the events already written are still being read.
ProcessExits(t) ==
    /\ exec[t].pc = "streaming"
    /\ exec[t].ready
    /\ exec' = [exec EXCEPT ![t].ready = FALSE]
    /\ UNCHANGED <<redisVars, queueVars, messages, pulled, starts, trackerVars,
                   poll, readerVars, cancels, hist, lim, boxVars>>

\* An empty accumulator is taken for a turn like any other.
NoEventsAccepted(x) == FALSE

\* process_stream: `if not ctx.events`.
NoEvents(x) == x.events = <<>>

\* The stream ended (StopAsyncIteration) with no cancellation: a fault when no
\* event was seen, else _finalize_stream(COMPLETED): persist, attempt the
\* checkpoint, then either hand a queued message to a continuation execution
\* or publish complete.
StreamEnds(t) ==
    /\ exec[t].pc = "streaming"
    /\ queueKey # <<>> /\ exec[t].events # <<>> => Len(exec) < lim.tasks
    /\ \E ckOk \in lim.ck :
       LET x == exec[t]
           pop == PopNextMessage
           saved == SaveMessageContent(messages, x.asst, x.events, "COMPLETED")
           rows == CreateQueueMessages(saved, pop.msg[1])
           newId == rows.asst
           hist1 == [hist EXCEPT
                       !.checkpoints = @ \cup {CheckpointAttempt(x.asst, ckOk)},
                       !.finals = @ \cup {[task |-> t, queued |-> pop.msg]}]
       IN  IF NoEvents(x)
           THEN Failed(t, "Stream completed without any events")
           ELSE IF pop.msg # <<>>
           THEN /\ messages' = rows.msgs
                /\ stream' = PublishQueueEvent(Log, newId, FALSE, t).s
                /\ clock' = PublishQueueEvent(Log, newId, FALSE, t).c
                /\ exec' = SpawnQueueContinuation(
                       [exec EXCEPT ![t].pc = "cleanup", ![t].outcome = "COMPLETED"],
                       pop.msg[1], newId)
                /\ queueKey' = pop.key
                /\ dirty' = pop.dirty
                /\ hist' = [hist1 EXCEPT !.popped = TRUE,
                                         !.userRows = Append(@, rows.user)]
                /\ UNCHANGED <<upsert, submits, nextQueueId>>
           ELSE /\ messages' = saved
                /\ stream' = PublishComplete(Log, t).s
                /\ clock' = PublishComplete(Log, t).c
                /\ exec' = [exec EXCEPT ![t].pc = "cleanup", ![t].outcome = "COMPLETED"]
                /\ hist' = hist1
                /\ UNCHANGED queueVars
    /\ UNCHANGED <<taskKey, revokedKey, pulled, starts, trackerVars, poll,
                   readerVars, cancels, lim, boxVars>>

\* CancellationHandler: the revoked flag is seen, the pull is interrupted;
\* process_stream marks the message INTERRUPTED and _finalize_stream persists
\* what was accumulated and publishes complete.
ObserveCancel(t) ==
    /\ exec[t].pc = "streaming"
    /\ revokedKey
    /\ messages' = SaveMessageContent(
                       UpdateMessageStatus(messages, exec[t].asst, "INTERRUPTED"),
                       exec[t].asst, exec[t].events, "INTERRUPTED")
    /\ stream' = PublishComplete(Log, t).s
    /\ clock' = PublishComplete(Log, t).c
    /\ exec' = [exec EXCEPT ![t].pc = "cleanup", ![t].outcome = "INTERRUPTED",
                             ![t].raised = "StreamCancelled"]
    /\ UNCHANGED <<taskKey, revokedKey, queueVars, pulled, starts, trackerVars,
                   poll, readerVars, cancels, hist, lim, boxVars>>

\* The task running _process_stream_events is cancelled while it awaits the
\* next event and the CancellationHandler has recorded no cancellation: the
\* CancelledError is raised again and leaves process_stream, which catches
\* neither it nor anything else on its way.
TaskCancelled(t) ==
    /\ exec[t].pc = "streaming"
    /\ exec' = [exec EXCEPT ![t].pc = "cleanup", ![t].raised = "CancelledError"]
    /\ UNCHANGED <<redisVars, queueVars, messages, pulled, starts, trackerVars,
                   poll, readerVars, cancels, hist, lim, boxVars>>

\* The finally of run_chat_stream: StreamPublisher.cleanup deletes the marker
\* and the revoked flag; the transport is closed.
Cleanup(t) ==
    /\ exec[t].pc = "cleanup"
    /\ taskKey' = NoTask
    /\ revokedKey' = FALSE
    /\ exec' = [exec EXCEPT ![t].pc = "done", ![t].ready = FALSE]
    /\ UNCHANGED <<stream, clock, queueVars, messages, pulled, starts,
                   trackerVars, poll, readerVars, cancels, hist, lim, boxVars>>

\* The worker process is killed while streaming: nothing of the above runs.
HardKill(t) ==
    /\ exec[t].pc = "streaming"
    /\ exec' = [exec EXCEPT ![t].pc = "dead"]
    /\ UNCHANGED <<redisVars, queueVars, messages, pulled, starts, trackerVars,
                   poll, readerVars, cancels, hist, lim, boxVars>>

\* ------------------------------------------------------------- cancel, status
\* cancel_stream without the test of the marker.
CancelStreamAlways ==
    /\ cancels < lim.cancels
    /\ cancels' = cancels + 1
    /\ revokedKey' = TRUE
    /\ monitor' = IF monitor.pc = "subscribed"
                  THEN [monitor EXCEPT !.pending = TRUE]
                  ELSE monitor
    /\ hist' = [hist EXCEPT !.cancelled = TRUE]
    /\ UNCHANGED <<stream, clock, taskKey, queueVars, workerVars, trackerVars,
                   poll, reader, cancelEvent, client, connects, lim, boxVars>>

\* cancel_stream: without a marker nothing happens; else the revoked flag is
\* set and "cancel" is published to whoever is subscribed at that moment.
CancelStream ==
    /\ cancels < lim.cancels
    /\ cancels' = cancels + 1
    /\ IF taskKey = NoTask
       THEN UNCHANGED <<revokedKey, monitor, hist>>
       ELSE /\ revokedKey' = TRUE
            /\ monitor' = IF monitor.pc = "subscribed"
                          THEN [monitor EXCEPT !.pending = TRUE]
                          ELSE monitor
            /\ hist' = [hist EXCEPT !.cancelled = TRUE]
    /\ UNCHANGED <<stream, clock, taskKey, queueVars, workerVars, trackerVars,
                   poll, reader, cancelEvent, client, connects, lim, boxVars>>

\* The Celery state of a task, as AsyncResult reports it.
TaskState(t) ==
    CASE exec[t].pc = "queued" -> "PENDING"
      [] exec[t].pc \in {"streaming", "dead"} -> "PROGRESS"
      [] exec[t].outcome = "COMPLETED" -> "SUCCESS"
      [] exec[t].outcome = "FAILED" /\ exec[t].pc = "done" -> "FAILURE"
      [] OTHER -> "PROGRESS"

\* get_stream_status, first half: read the latest assistant message.
PollReadsMessage ==
    /\ poll.pc = "idle"
    /\ poll' = [pc |-> "read",
                latest |-> IF messages = <<>> THEN "" ELSE Last(messages).status]
    /\ UNCHANGED <<redisVars, queueVars, workerVars, trackerVars, readerVars,
                   cancels, hist, lim, boxVars>>

\* get_stream_status, second half: delete the marker when the message is in a
\* final state, when the chat is revoked or when the task is not active.
PollReadsMarker ==
    /\ poll.pc = "read"
    /\ poll' = [pc |-> "idle", latest |-> ""]
    /\ taskKey' =
         IF poll.latest \in TERMINAL_STATUSES THEN NoTask
         ELSE IF taskKey = NoTask THEN NoTask
         ELSE IF revokedKey THEN NoTask
         ELSE IF TaskState(taskKey) \notin {"PENDING", "STARTED", "PROGRESS"} THEN NoTask
         ELSE taskKey
    /\ UNCHANGED <<stream, clock, revokedKey, queueVars, workerVars, trackerVars,
                   readerVars, cancels, hist, lim, boxVars>>

\* ------------------------------------------------------ context-usage tracker
\* fetch_context_token_usage is dispatched when an execution starts with a
\* session id, or when the agent reports one.
TrackerStarts(t) ==
    /\ exec[t].pc = "streaming"
    /\ tracker = "off"
    /\ tracker' = "fetch"
    /\ UNCHANGED <<redisVars, queueVars, workerVars, trackerPublishes, poll,
                   readerVars, cancels, hist, lim, boxVars>>

\* ContextUsageTracker.fetch_and_broadcast: publishes a system event into the
\* log unless the usage is unknown.
FetchAndBroadcast(known) ==
    /\ tracker = "fetch"
    /\ tracker' = "check"
    /\ IF known
       THEN /\ trackerPublishes < lim.broadcasts
            /\ trackerPublishes' = trackerPublishes + 1
            /\ stream' = PublishEvent(Log, SystemEvent, 0).s
            /\ clock' = PublishEvent(Log, SystemEvent, 0).c
       ELSE UNCHANGED <<stream, clock, trackerPublishes>>
    /\ UNCHANGED <<taskKey, revokedKey, queueVars, workerVars, poll, readerVars,
                   cancels, hist, lim, boxVars>>

\* ContextUsageTracker._is_stream_active
IsStreamActive == taskKey # NoTask /\ ~revokedKey

\* poll_while_streaming after a broadcast: stop when the stream is not active,
\* else sleep and fetch again.
TrackerChecks ==
    /\ tracker = "check"
    /\ tracker' = IF IsStreamActive THEN "fetch" ELSE "stopped"
    /\ UNCHANGED <<redisVars, queueVars, workerVars, trackerPublishes, poll,
                   readerVars, cancels, hist, lim, boxVars>>

\* ------------------------------------------------------- queue submissions
\* The parameters of upsert_message besides the content, with their defaults
\* (None is the empty sequence), and the response before any call returned.
DefaultArgs == [model_id |-> "m1", permission_mode |-> "auto",
                thinking_mode |-> "", attachments |-> <<>>]
NoResponse == [id |-> 0, created |-> FALSE, content |-> <<>>, attachments |-> <<>>]
IdleUpsert == [pc |-> "idle", raw |-> <<>>, content |-> <<>>, attempts |-> 0,
               args |-> DefaultArgs, resp |-> NoResponse]

\* upsert_message up to its MULTI: WATCH the key and GET it.
WatchAndGet(c, content, args, attempts) ==
    /\ upsert' = [upsert EXCEPT ![c] = [pc |-> "read", raw |-> queueKey,
                                        content |-> content, attempts |-> attempts,
                                        args |-> args, resp |-> NoResponse]]
    /\ dirty' = dirty \ {c}

\* A client has one submission in flight at a time.
UpsertBegins(c, content) ==
    /\ upsert[c].pc \in {"idle", "done"}
    /\ submits < lim.submits
    /\ submits' = submits + 1
    /\ \E args \in lim.args : WatchAndGet(c, content, args, 1)
    /\ UNCHANGED <<redisVars, queueKey, nextQueueId, workerVars, trackerVars,
                   poll, readerVars, cancels, hist, lim, boxVars>>

\* The stored message taking the model of the new submission as well.
UpsertDataRestamped(u) ==
    IF u.raw # <<>>
    THEN [u.raw[1] EXCEPT
            !.content = AppendContent(@, u.content),
            !.model_id = u.args.model_id,
            !.attachments = IF u.args.attachments # <<>>
                            THEN @ \o u.args.attachments ELSE @]
    ELSE [id |-> nextQueueId, content |-> u.content,
          model_id |-> u.args.model_id,
          permission_mode |-> u.args.permission_mode,
          thinking_mode |-> u.args.thinking_mode,
          queued_at |-> submits,
          attachments |-> u.args.attachments]

\* The message upsert_message writes: the stored one with the content appended
\* after a newline and the new attachments, if any, after the stored ones, or a
\* new one under a fresh id; the time is the number of calls made so far.
UpsertData(u) ==
    IF u.raw # <<>>
    THEN [u.raw[1] EXCEPT
            !.content = AppendContent(@, u.content),
            !.attachments = IF u.args.attachments # <<>>
                            THEN @ \o u.args.attachments ELSE @]
    ELSE [id |-> nextQueueId, content |-> u.content,
          model_id |-> u.args.model_id,
          permission_mode |-> u.args.permission_mode,
          thinking_mode |-> u.args.thinking_mode,
          queued_at |-> submits,
          attachments |-> u.args.attachments]

\* QueueUpsertResponse of the call that wrote UpsertData(u).
UpsertResponse(u) ==
    [id |-> UpsertData(u).id, created |-> u.raw = <<>>,
     content |-> UpsertData(u).content, attachments |-> UpsertData(u).attachments]

\* EXEC without the WATCH: the transaction is applied whatever was written to
\* the key in between.
ExecUnwatched(c) == TRUE

\* EXEC: the SET takes effect only if the key is unchanged since the WATCH.
ExecSucceeds(c) == c \notin dirty

\* upsert_message from its EXEC on: on success the key holds the new data; on
\* a WatchError the call is retried, up to UPSERT_ATTEMPTS attempts.
UpsertExecutes(c) ==
    /\ upsert[c].pc = "read"
    /\ IF ExecSucceeds(c)
       THEN /\ queueKey' = <<UpsertData(upsert[c])>>
            /\ nextQueueId' = IF upsert[c].raw = <<>> THEN nextQueueId + 1
                              ELSE nextQueueId
            /\ dirty' = Touched \ {c}
            /\ upsert' = [upsert EXCEPT ![c].pc = "done",
                                        ![c].resp = UpsertResponse(upsert[c])]
            /\ hist' = [hist EXCEPT
                          !.committed = Append(@, [id |-> UpsertData(upsert[c]).id,
                                                   content |-> upsert[c].content,
                                                   op |-> "upsert"])]
       ELSE /\ IF upsert[c].attempts < UPSERT_ATTEMPTS
               THEN WatchAndGet(c, upsert[c].content, upsert[c].args,
                                upsert[c].attempts + 1)
               ELSE /\ upsert' = [upsert EXCEPT ![c].pc = "failed"]
                    /\ dirty' = dirty \ {c}
            /\ UNCHANGED <<queueKey, nextQueueId, hist>>
    /\ UNCHANGED <<redisVars, submits, workerVars, trackerVars, poll, readerVars,
                   cancels, lim, boxVars>>

\* update_message up to its MULTI: WATCH the key and GET it; without a stored
\* message it unwatches and returns None.
UpdateBegins(c, content) ==
    /\ upsert[c].pc \in {"idle", "done"}
    /\ submits < lim.submits
    /\ submits' = submits + 1
    /\ upsert' = [upsert EXCEPT ![c] = [pc |-> IF queueKey = <<>> THEN "done"
                                               ELSE "update",
                                        raw |-> queueKey, content |-> content,
                                        attempts |-> 1, args |-> DefaultArgs,
                                        resp |-> NoResponse]]
    /\ dirty' = dirty \ {c}
    /\ UNCHANGED <<redisVars, queueKey, nextQueueId, workerVars, trackerVars,
                   poll, readerVars, cancels, hist, lim, boxVars>>

\* update_message from its EXEC on: the stored message with its content
\* replaced; on a WatchError the call is retried.
UpdateExecutes(c) ==
    /\ upsert[c].pc = "update"
    /\ IF ExecSucceeds(c)
       THEN /\ queueKey' = <<[upsert[c].raw[1] EXCEPT !.content = upsert[c].content]>>
            /\ dirty' = Touched \ {c}
            /\ upsert' = [upsert EXCEPT ![c].pc = "done"]
            /\ hist' = [hist EXCEPT
                          !.committed = Append(@, [id |-> upsert[c].raw[1].id,
                                                   content |-> upsert[c].content,
                                                   op |-> "update"])]
       ELSE /\ IF upsert[c].attempts >= UPSERT_ATTEMPTS
               THEN /\ upsert' = [upsert EXCEPT ![c].pc = "failed"]
                    /\ dirty' = dirty \ {c}
               ELSE /\ upsert' = [upsert EXCEPT
                                    ![c].pc = IF queueKey = <<>> THEN "done"
                                              ELSE "update",
                                    ![c].raw = queueKey,
                                    ![c].attempts = @ + 1]
                    /\ dirty' = dirty \ {c}
            /\ UNCHANGED <<queueKey, hist>>
    /\ UNCHANGED <<redisVars, submits, nextQueueId, workerVars, trackerVars, poll,
                   readerVars, cancels, lim, boxVars>>

\* pop_next_message called by a worker: GETDEL; what it returned is noted.
QueuePop ==
    /\ Len(hist.pops) < lim.pops
    /\ queueKey' = PopNextMessage.key
    /\ dirty' = PopNextMessage.dirty
    /\ hist' = [hist EXCEPT !.pops = Append(@, PopNextMessage.msg)]
    /\ UNCHANGED <<redisVars, upsert, submits, nextQueueId, workerVars,
                   trackerVars, poll, readerVars, cancels, lim, boxVars>>

\* clear_queue: DEL of the slot.
ClearQueue ==
    /\ queueKey # <<>>
    /\ queueKey' = <<>>
    /\ dirty' = Touched
    /\ hist' = [hist EXCEPT !.popped = TRUE]
    /\ UNCHANGED <<redisVars, upsert, submits, nextQueueId, workerVars,
                   trackerVars, poll, readerVars, cancels, lim, boxVars>>

\* --------------------------------------------------------------- transport
\* The multiplexed stream of the Docker exec socket: frames of an 8-byte
\* header (byte 0 the stream type, bytes 4..7 the payload length, big-endian)
\* and the payload.  Bytes are numbers 0..255.
STDOUT == 1             \* stream type of a stdout frame
STDERR == 2             \* stream type of a stderr frame
HEADER_SIZE == 8
RECV_SIZE == 4096       \* the most one recv returns
REPLACEMENT == 65533    \* U+FFFD, what errors="replace" decodes a bad byte to
PayloadBytes == {65, 255}       \* "A", and a byte that is not UTF-8

Frame(type, payload) == [type |-> type, payload |-> payload]

\* n as four bytes, most significant first.
BigEndian(n) ==
    << (n \div 16777216) % 256, (n \div 65536) % 256, (n \div 256) % 256, n % 256 >>

\* int.from_bytes(b, byteorder="big") of four bytes.
FromBytes(b) == ((b[1] * 256 + b[2]) * 256 + b[3]) * 256 + b[4]

RECURSIVE Encode(_)
\* The bytes the daemon sends for a sequence of frames.
Encode(frames) ==
    IF frames = <<>> THEN <<>>
    ELSE <<Head(frames).type, 0, 0, 0>> \o BigEndian(Len(Head(frames).payload))
           \o Head(frames).payload \o Encode(Tail(frames))

\* payload.decode("utf-8", errors="replace"), code point by code point: an
\* ASCII byte is itself, a byte that starts no valid sequence is U+FFFD.
Decode(payload) ==
    [i \in DOMAIN payload |-> IF payload[i] < 128 THEN payload[i] ELSE REPLACEMENT]

\* A transport as constructed: not ready, nothing attached, an empty queue.
\* chan is the asyncio.Queue between the socket reader and read_messages;
\* trail, calls and result record what close and the callers did.
NoSocket ==
    [wire |-> <<>>, sent |-> <<>>, frames |-> <<>>, buffer |-> <<>>, queue |-> <<>>,
     reads |-> 0,
     ready |-> FALSE, stdinClosed |-> FALSE, socket |-> FALSE,
     monitorTask |-> "none", readerTask |-> "none", chan |-> <<>>, puts |-> 0,
     consumer |-> "none", closing |-> "", trail |-> <<>>,
     sentData |-> 0, sentEof |-> 0, calls |-> 0,
     exit |-> "", exitError |-> "", raised |-> "",
     result |-> [op |-> "", outcome |-> ""],
     text |-> <<>>, stdout |-> <<>>,
     parse |-> [buffer |-> <<>>, started |-> FALSE, out |-> <<>>, stop |-> FALSE,
                error |-> "", done |-> FALSE]]

\* A transport connected to a process that will write the given frames.
Connected(frames) ==
    [NoSocket EXCEPT !.wire = Encode(frames), !.sent = Encode(frames), !.frames = frames]

RECURSIVE Drain(_, _, _)
\* The inner loop of _read_socket_data over the buffer: while a header is
\* there, a frame longer than max_buffer_size empties the buffer, an incomplete
\* frame waits, a complete one is cut off and, if stdout, decoded and queued.
Drain(buffer, queue, max) ==
    IF Len(buffer) < HEADER_SIZE THEN [buffer |-> buffer, queue |-> queue]
    ELSE LET type == buffer[1]
             size == FromBytes(SubSeq(buffer, 5, 8))
             payload == SubSeq(buffer, HEADER_SIZE + 1, HEADER_SIZE + size)
             rest == SubSeq(buffer, HEADER_SIZE + size + 1, Len(buffer))
         IN  IF size > max THEN [buffer |-> <<>>, queue |-> queue]
             ELSE IF Len(buffer) < HEADER_SIZE + size
             THEN [buffer |-> buffer, queue |-> queue]
             ELSE Drain(rest,
                        IF type = STDOUT THEN Append(queue, Decode(payload)) ELSE queue,
                        max)

\* One pass of the outer loop of _read_socket_data: recv returns the next n
\* bytes of the socket, they are added to the buffer and the buffer is drained.
ReadSocketData(n) ==
    /\ n \in 1..(IF Len(sock.wire) < RECV_SIZE THEN Len(sock.wire) ELSE RECV_SIZE)
    /\ LET data == SubSeq(sock.wire, 1, n)
           after == Drain(sock.buffer \o data, sock.queue, lim.maxBuffer)
       IN  sock' = [sock EXCEPT
                      !.wire = SubSeq(@, n + 1, Len(@)),
                      !.buffer = after.buffer,
                      !.queue = after.queue,
                      !.reads = @ + 1]
    /\ UNCHANGED <<chatVars, lim, sandbox, provider>>

\* The rest of the transport: connect, the input side, close, and the queue
\* between the socket reader and the consumer of read_messages.
STDOUT_QUEUE_MAXSIZE == 32
SENTINEL == "SENTINEL"

\* _put_sentinel: put_nowait, a full queue is passed over.
PutSentinel(chan) ==
    IF Len(chan) >= STDOUT_QUEUE_MAXSIZE THEN chan ELSE Append(chan, SENTINEL)

\* connect: the exec socket is attached, the reader and monitor tasks are
\* created, the transport is ready; the caller starts iterating read_messages.
TransportConnects ==
    /\ ~sock.ready /\ sock.closing = "" /\ sock.consumer = "none"
    /\ sock' = [sock EXCEPT !.stdinClosed = FALSE, !.socket = TRUE,
                            !.readerTask = "running", !.monitorTask = "running",
                            !.ready = TRUE, !.consumer = "reading"]
    /\ UNCHANGED <<chatVars, lim, sandbox, provider>>

\* _read_socket_data queues a decoded stdout payload: await put, which waits
\* while the queue is full.
ReaderPuts ==
    /\ sock.readerTask = "running"
    /\ sock.socket
    /\ sock.puts < lim.chunks
    /\ Len(sock.chan) < STDOUT_QUEUE_MAXSIZE
    /\ sock' = [sock EXCEPT !.chan = Append(@, "chunk"), !.puts = @ + 1]
    /\ UNCHANGED <<chatVars, lim, sandbox, provider>>

\* How the exec of the agent can end, as exec_inspect shows it: exit code 0,
\* a nonzero exit code, or no answer at all.
Exits == {"zero", "nonzero", "gone"}

\* _monitor_process: the process has ended; a nonzero code leaves a
\* ProcessError, a failed inspection a CLIConnectionError; its finally clears
\* _ready.
MonitorEnds(how) ==
    /\ sock.monitorTask = "running"
    /\ sock.ready
    /\ sock' = [sock EXCEPT !.monitorTask = "done", !.ready = FALSE,
                            !.exit = how,
                            !.exitError = CASE how = "nonzero" -> "ProcessError"
                                            [] how = "gone" -> "CLIConnectionError"
                                            [] OTHER -> @]
    /\ UNCHANGED <<chatVars, lim, sandbox, provider>>

\* _read_socket_data leaves its loop once the transport is not ready any more
\* and the socket stays silent; its finally puts the sentinel.
ReaderEnds ==
    /\ sock.readerTask = "running"
    /\ ~sock.ready
    /\ sock.closing = ""
    /\ sock' = [sock EXCEPT !.readerTask = "done", !.chan = PutSentinel(@)]
    /\ UNCHANGED <<chatVars, lim, sandbox, provider>>

\* _parse_cli_output: one get from the queue; the sentinel ends the iteration.
ReadMessages ==
    /\ sock.consumer = "reading"
    /\ sock.chan # <<>>
    /\ sock' = [sock EXCEPT !.chan = Tail(@),
                            !.consumer = IF Head(sock.chan) = SENTINEL THEN "done"
                                         ELSE @,
                            !.raised = IF Head(sock.chan) = SENTINEL
                                       THEN sock.exitError ELSE @]
    /\ UNCHANGED <<chatVars, lim, sandbox, provider>>

\* ------------------------------------------------ the stdout text as JSON
\* Text is a sequence of characters.  TYPE_RESULT stands for the member
\* "type":"result" of an object and ESC for one ANSI escape sequence.
QUOTE == "\""
TYPE_RESULT == "type:result"
ESC == "esc"
WHITESPACE == {" ", "\n", "\r", "\t"}

RECURSIVE LStrip(_)
LStrip(s) == IF s # <<>> /\ Head(s) \in WHITESPACE THEN LStrip(Tail(s)) ELSE s
RECURSIVE RStrip(_)
RStrip(s) ==
    IF s # <<>> /\ Last(s) \in WHITESPACE THEN RStrip(SubSeq(s, 1, Len(s) - 1)) ELSE s
\* str.strip
Strip(s) == RStrip(LStrip(s))

\* The first position of one of the characters in s, 0 if there is none.
Find(s, chars) ==
    IF \E i \in 1..Len(s) : s[i] \in chars
    THEN CHOOSE i \in 1..Len(s) :
            s[i] \in chars /\ \A j \in 1..(i - 1) : s[j] \notin chars
    ELSE 0

RECURSIVE SplitLines(_)
\* str.split("\n")
SplitLines(s) ==
    LET i == Find(s, {"\n"})
    IN  IF i = 0 THEN <<s>>
        ELSE <<SubSeq(s, 1, i - 1)>> \o SplitLines(SubSeq(s, i + 1, Len(s)))

\* The object with the member "type":"result".
RESULT_MESSAGE == [json |-> "object", type |-> "result", items |-> <<>>]
NoValue == [ok |-> FALSE, value |-> <<>>, rest |-> <<>>]

\* A string literal at the start of w: up to the closing quote, control
\* characters not allowed inside.
DecodeString(w) ==
    LET j == Find(Tail(w), {QUOTE})
    IN  IF w = <<>> \/ Head(w) # QUOTE \/ j = 0 THEN NoValue
        ELSE LET content == SubSeq(w, 2, j)
             IN  IF \E i \in 1..Len(content) : content[i] \in {"\n", "\r", "\t", ESC}
                 THEN NoValue
                 ELSE [ok |-> TRUE, value |-> content, rest |-> SubSeq(w, j + 2, Len(w))]

\* JSONDecoder.raw_decode for the values of the texts: an array of at most one
\* string, an object that is empty or has the member "type":"result".
RawDecode(w) ==
    IF w = <<>> THEN NoValue
    ELSE LET a == LStrip(Tail(w))
         IN  IF Head(w) = "["
             THEN IF a # <<>> /\ Head(a) = "]"
                  THEN [ok |-> TRUE, value |-> [json |-> "array", type |-> "", items |-> <<>>],
                        rest |-> Tail(a)]
                  ELSE LET str == DecodeString(a)
                           b == LStrip(str.rest)
                       IN  IF str.ok /\ b # <<>> /\ Head(b) = "]"
                           THEN [ok |-> TRUE,
                                 value |-> [json |-> "array", type |-> "",
                                            items |-> <<str.value>>],
                                 rest |-> Tail(b)]
                           ELSE NoValue
             ELSE IF Head(w) = "{"
             THEN IF a # <<>> /\ Head(a) = "}"
                  THEN [ok |-> TRUE, value |-> [json |-> "object", type |-> "", items |-> <<>>],
                        rest |-> Tail(a)]
                  ELSE IF /\ a # <<>> /\ Head(a) = TYPE_RESULT
                          /\ LStrip(Tail(a)) # <<>> /\ Head(LStrip(Tail(a))) = "}"
                  THEN [ok |-> TRUE, value |-> RESULT_MESSAGE,
                        rest |-> Tail(LStrip(Tail(a)))]
                  ELSE NoValue
             ELSE NoValue

RECURSIVE ParseJsonBuffer(_)
\* _parse_json_buffer: values are decoded off the front of the buffer for as
\* long as one is complete; what is left is returned with them.
ParseJsonBuffer(buffer) ==
    LET working == LStrip(buffer)
        d == RawDecode(working)
    IN  IF working = <<>> \/ ~d.ok THEN [working |-> working, messages |-> <<>>]
        ELSE LET r == ParseJsonBuffer(d.rest)
             IN  [working |-> r.working, messages |-> <<d.value>> \o r.messages]


\* The body of the loop over the lines of a chunk in _parse_cli_output.
ParseLine(p, raw) ==
    LET stripped == Strip(raw)
        brace == Find(stripped, {"{", "["})
        line == IF p.started THEN stripped
                ELSE SubSeq(stripped, brace, Len(stripped))
        buffer == p.buffer \o line
        parsed == ParseJsonBuffer(buffer)
        result == Find(parsed.messages, {RESULT_MESSAGE})
    IN  IF p.stop \/ p.error # "" \/ stripped = <<>> \/ (~p.started /\ brace = 0)
        THEN p
        ELSE IF Len(buffer) > lim.maxBuffer
        THEN [p EXCEPT !.buffer = <<>>, !.started = TRUE, !.error = "CLIJSONDecodeError"]
        ELSE IF parsed.messages = <<>>
        THEN [p EXCEPT !.buffer = parsed.working, !.started = TRUE]
        ELSE IF result # 0
        THEN [p EXCEPT !.buffer = <<>>, !.started = FALSE, !.stop = TRUE,
                       !.out = @ \o SubSeq(parsed.messages, 1, result)]
        ELSE [p EXCEPT !.buffer = parsed.working, !.started = parsed.working # <<>>,
                       !.out = @ \o parsed.messages]

RECURSIVE ParseLines(_, _)
ParseLines(p, lines) ==
    IF lines = <<>> THEN p ELSE ParseLines(ParseLine(p, Head(lines)), Tail(lines))

\* One chunk taken from the queue: escape sequences and carriage returns are
\* removed, the rest is split into lines.
ParseChunkOf(p, chunk) ==
    ParseLines(p, SplitLines(SelectSeq(chunk, LAMBDA ch : ch \notin {ESC, "\r"})))

\* The sentinel: what is left in the buffer is parsed, and is an error unless
\* it was all values.
ParseEnd(p) ==
    LET parsed == ParseJsonBuffer(p.buffer)
    IN  [p EXCEPT !.done = TRUE,
                  !.out = @ \o parsed.messages,
                  !.error = IF @ = "" /\ Strip(parsed.working) # <<>>
                            THEN "CLIJSONDecodeError" ELSE @]

RECURSIVE ParseCliOutput(_, _)
\* _parse_cli_output over the chunks queued before the sentinel.
ParseCliOutput(p, chunks) ==
    IF chunks = <<>> \/ p.stop \/ p.error # "" THEN ParseEnd(p)
    ELSE ParseCliOutput(ParseChunkOf(p, Head(chunks)), Tail(chunks))

\* _parse_cli_output: one get from the queue, a chunk.
ParseChunk ==
    /\ ~sock.parse.done /\ ~sock.parse.stop /\ sock.parse.error = ""
    /\ sock.stdout # <<>>
    /\ sock' = [sock EXCEPT !.stdout = Tail(@),
                            !.parse = ParseChunkOf(@, Head(sock.stdout))]
    /\ UNCHANGED <<chatVars, lim, sandbox, provider>>

\* _parse_cli_output leaves its loop, on the sentinel, a result message or an
\* oversized buffer.
ParseEnds ==
    /\ ~sock.parse.done
    /\ sock.text # <<>>
    /\ sock.stdout = <<>> \/ sock.parse.stop \/ sock.parse.error # ""
    /\ sock' = [sock EXCEPT !.parse = ParseEnd(@)]
    /\ UNCHANGED <<chatVars, lim, sandbox, provider>>

\* Input is passed on whatever end_input did before.
InputAlwaysOpen(t) == FALSE

\* _ensure_input_open raises once input has been closed.
InputClosed(t) == t.stdinClosed

\* write: CLIConnectionError unless the transport is ready, the socket is
\* there and input is open; else the data is handed to the socket.
Write ==
    /\ sock.calls < lim.calls
    /\ LET refused == ~sock.ready \/ ~sock.socket \/ InputClosed(sock)
       IN  sock' = [sock EXCEPT
                      !.calls = @ + 1,
                      !.sentData = IF refused THEN @ ELSE @ + 1,
                      !.result = [op |-> "write",
                                  outcome |-> IF refused THEN "CLIConnectionError"
                                              ELSE "sent"]]
    /\ UNCHANGED <<chatVars, lim, sandbox, provider>>

\* What end_input does to the transport: nothing unless ready, attached and
\* input still open; else EOF is sent and input is marked closed (a failure to
\* send is passed over and leaves input open).
EndInputOn(t, ok) ==
    IF ~t.ready \/ ~t.socket \/ t.stdinClosed \/ ~ok THEN t
    ELSE [t EXCEPT !.sentEof = @ + 1, !.stdinClosed = TRUE]

\* end_input called by the user of the transport.
EndInput ==
    /\ sock.calls < lim.calls
    /\ \E ok \in BOOLEAN :
          LET t == EndInputOn(sock, ok)
          IN  sock' = [t EXCEPT
                         !.calls = @ + 1,
                         !.result = [op |-> "end_input",
                                     outcome |-> IF t = sock THEN "no-op" ELSE "sent"]]
    /\ UNCHANGED <<chatVars, lim, sandbox, provider>>

\* close, from one await to the next: end_input if ready; _ready cleared and
\* the monitor cancelled; _cleanup_resources (the reader is cancelled and its
\* finally puts the sentinel, the socket is dropped); _stdin_closed reset and
\* the sentinel put.
Close ==
    /\ sock.closing # "closed"
    /\ sock.consumer # "none"
    /\ sock' =
         CASE sock.closing = "" ->
                [EndInputOn(sock, TRUE) EXCEPT !.closing = "input",
                                               !.trail = Append(@, "end_input")]
           [] sock.closing = "input" ->
                [sock EXCEPT !.ready = FALSE, !.monitorTask = "none",
                             !.closing = "monitor",
                             !.trail = Append(@, "cancel_monitor")]
           [] sock.closing = "monitor" ->
                [sock EXCEPT !.chan = IF sock.readerTask = "running"
                                      THEN PutSentinel(@) ELSE @,
                             !.readerTask = "none", !.socket = FALSE,
                             !.closing = "resources",
                             !.trail = Append(@, "cleanup_resources")]
           [] sock.closing = "resources" ->
                [sock EXCEPT !.stdinClosed = FALSE, !.chan = PutSentinel(@),
                             !.closing = "closed",
                             !.trail = Append(@, "put_sentinel")]
    /\ UNCHANGED <<chatVars, lim, sandbox, provider>>

\* ---------------------------------------------------------------- provider
\* LocalDockerProvider over a container runtime.  "src" is a sandbox that
\* exists, "new" is the id clone_sandbox draws, "stale" names no container.
SandboxIds == {"src", "new", "stale"}
PtyIds == 1..lim.ptys

VNC_PORT == 5900
VNC_WEBSOCKET_PORT == 6080
OPENVSCODE_PORT == 8765
CHROME_DEVTOOLS_PORT == 9222
DOCKER_AVAILABLE_PORTS ==
    {3000, 3001, 5000, 5900, 6080, 8000, 8080, 8765, 5173, 4200, 8888, 4321, 3030,
     5500, 1234, 4000}
EXCLUDED_PREVIEW_PORTS ==
    {22, 3456, 4040, 49982, 49983, VNC_PORT, VNC_WEBSOCKET_PORT, OPENVSCODE_PORT,
     CHROME_DEVTOOLS_PORT}

\* What `ss` may report inside the sandbox: an application port that is
\* published, the VNC ports, the IDE port, the devtools port, and a port that
\* is not published.
ListeningSets == SUBSET {3000, VNC_PORT, VNC_WEBSOCKET_PORT, OPENVSCODE_PORT,
                         CHROME_DEVTOOLS_PORT, 7000}

NoCall ==
    [op |-> "", id |-> "", sid |-> 0, ck |-> "", outcome |-> "",
     listening |-> {}, links |-> {}]

\* docker, images: what the runtime holds.  containers, portMappings: the keys
\* of _containers and _port_mappings.  pty: the keys of _pty_sessions, as
\* <<sandbox id, session id>>; readers: the sessions whose reader task runs.
\* The runs of the scheduled tasks: where execute_scheduled_task_async stands,
\* the status of the TaskExecution row it created, the sandbox it created, and
\* what it returned.
SchedTasks == 1..RunMaxTasks
NoRun == [pc |-> "idle", execution |-> "none", box |-> "none", result |-> ""]

NewProvider ==
    [docker |-> {"src"}, images |-> {}, containers |-> {}, portMappings |-> {},
     pty |-> {}, readers |-> {}, nextPty |-> 1, ops |-> 0, last |-> NoCall,
     runs |-> [k \in SchedTasks |-> NoRun]]

\* One more call has returned or raised.
Did(p, call) == [p EXCEPT !.ops = @ + 1, !.last = call]

\* _get_container finds the container: cached, or looked up by name.
Found(p, id) == id \in p.containers \/ id \in p.docker

\* connect_sandbox on a cache miss: the handle and its port map are cached.
Cached(p, id) ==
    [p EXCEPT !.containers = @ \cup {id}, !.portMappings = @ \cup {id}]

\* _extract_port_mappings: every published port has a host binding.
PortMap == DOCKER_AVAILABLE_PORTS \cup {OPENVSCODE_PORT}

\* execute_command: SandboxException("Container ... not found") from
\* _get_container, else the command runs.
ExecuteCommand(id) ==
    /\ provider.ops < lim.ops
    /\ LET call == [NoCall EXCEPT !.op = "execute_command", !.id = id]
       IN  provider' =
             IF Found(provider, id)
             THEN Did(Cached(provider, id), [call EXCEPT !.outcome = "ok"])
             ELSE Did(provider, [call EXCEPT !.outcome = "SandboxException"])
    /\ UNCHANGED <<chatVars, lim, sandbox, sock>>

\* restore_checkpoint as seen by its caller: the directory test runs through
\* execute_command; a missing directory raises FileNotFoundError.
RestoreCheckpointOn(id, ck) ==
    /\ provider.ops < lim.ops
    /\ LET call == [NoCall EXCEPT !.op = "restore_checkpoint", !.id = id, !.ck = ck]
       IN  provider' =
             IF ~Found(provider, id)
             THEN Did(provider, [call EXCEPT !.outcome = "SandboxException"])
             ELSE IF ck = "stale"
             THEN Did(Cached(provider, id),
                      [call EXCEPT !.outcome = "FileNotFoundError"])
             ELSE Did(Cached(provider, id), [call EXCEPT !.outcome = "ok"])
    /\ UNCHANGED <<chatVars, lim, sandbox, sock>>

\* create_pty: a session is registered under a fresh id; with a callback a
\* reader task is started.
CreatePty(id, onData) ==
    /\ provider.ops < lim.ops
    /\ provider.nextPty \in PtyIds
    /\ LET sid == provider.nextPty
           call == [NoCall EXCEPT !.op = "create_pty", !.id = id, !.sid = sid]
       IN  provider' =
             IF ~Found(provider, id)
             THEN Did(provider, [call EXCEPT !.outcome = "SandboxException"])
             ELSE Did([Cached(provider, id) EXCEPT
                          !.pty = @ \cup {<<id, sid>>},
                          !.readers = IF onData THEN @ \cup {<<id, sid>>} ELSE @,
                          !.nextPty = @ + 1],
                      [call EXCEPT !.outcome = "ok"])
    /\ UNCHANGED <<chatVars, lim, sandbox, sock>>

\* send_pty_input and resize_pty: without a session entry they return at
\* once; with one they act on its socket.  Both return None.
PtyCall(op, id, sid) ==
    /\ provider.ops < lim.ops
    /\ provider' = Did(provider, [NoCall EXCEPT !.op = op, !.id = id, !.sid = sid,
                                                !.outcome = "None"])
    /\ UNCHANGED <<chatVars, lim, sandbox, sock>>

\* kill_pty: returns at once without a session entry; else the reader task is
\* cancelled, the socket closed and the entry removed.
KillPty(id, sid) ==
    /\ provider.ops < lim.ops
    /\ LET call == [NoCall EXCEPT !.op = "kill_pty", !.id = id, !.sid = sid,
                                  !.outcome = "None"]
       IN  provider' =
             IF <<id, sid>> \notin provider.pty THEN Did(provider, call)
             ELSE Did([provider EXCEPT !.pty = @ \ {<<id, sid>>},
                                       !.readers = @ \ {<<id, sid>>}], call)
    /\ UNCHANGED <<chatVars, lim, sandbox, sock>>

\* _pty_reader: the exec socket of a container that is gone reads empty and
\* the task ends.
PtyReaderEnds(id, sid) ==
    /\ <<id, sid>> \in provider.readers
    /\ id \notin provider.docker
    /\ provider' = [provider EXCEPT !.readers = @ \ {<<id, sid>>}]
    /\ UNCHANGED <<chatVars, lim, sandbox, sock>>

\* delete_sandbox: the cached handle or a lookup by name (a failed lookup
\* returns); stop and remove, their errors passed over; the cache entries go.
DeleteSandbox(id, removed) ==
    /\ provider.ops < lim.ops
    /\ LET call == [NoCall EXCEPT !.op = "delete_sandbox", !.id = id,
                                  !.outcome = "None"]
       IN  provider' =
             IF ~Found(provider, id) THEN Did(provider, call)
             ELSE Did([provider EXCEPT
                          !.docker = IF removed THEN @ \ {id} ELSE @,
                          !.containers = @ \ {id},
                          !.portMappings = @ \ {id}], call)
    /\ UNCHANGED <<chatVars, lim, sandbox, sock>>

\* The steps of clone_sandbox that may raise.
CloneSteps == {"create", "ports", "restore"}

\* clone_sandbox of "src" into "new": commit, then the try block up to the
\* step that raises (failAt, or "none"), then the except and finally blocks,
\* whose own removals may fail and are passed over.
CloneSandbox(ck, failAt, removed, imageRemoved) ==
    /\ provider.ops < lim.ops
    /\ "new" \notin provider.docker
    /\ failAt = "restore" => ck # ""
    /\ LET call == [NoCall EXCEPT !.op = "clone_sandbox", !.id = "new", !.ck = ck]
           p0 == Cached(provider, "src")
           committed == [p0 EXCEPT !.images = @ \cup {"snapshot"}]
           \* try
           created == IF failAt = "create" THEN committed
                      ELSE [committed EXCEPT !.docker = @ \cup {"new"},
                                             !.containers = @ \cup {"new"}]
           mapped == IF failAt \in {"create", "ports"} THEN created
                     ELSE [created EXCEPT !.portMappings = @ \cup {"new"}]
           \* except Exception
           rolled == IF failAt = "none" THEN mapped
                     ELSE [mapped EXCEPT
                             !.containers = @ \ {"new"},
                             !.portMappings = @ \ {"new"},
                             !.docker = IF failAt # "create" /\ removed
                                        THEN @ \ {"new"} ELSE @]
           \* finally
           done == [rolled EXCEPT !.images = IF imageRemoved THEN @ \ {"snapshot"}
                                             ELSE @]
       IN  provider' =
             IF ~Found(provider, "src")
             THEN Did(provider, [call EXCEPT !.outcome = "SandboxException"])
             ELSE Did(done, [call EXCEPT !.outcome = IF failAt = "none" THEN "ok"
                                                     ELSE failAt])
    /\ UNCHANGED <<chatVars, lim, sandbox, sock>>

\* _build_preview_links: one link per port outside the excluded set.
BuildPreviewLinks(ports, excluded) == {port \in ports : port \notin excluded}

\* LocalDockerProvider.get_preview_links: the listening ports that have a
\* port mapping, less the IDE port.
GetPreviewLinks(id, listening) ==
    /\ provider.ops < lim.ops
    /\ LET call == [NoCall EXCEPT !.op = "get_preview_links", !.id = id,
                                  !.listening = listening]
           p0 == Cached(provider, id)
           port_map == IF id \in p0.portMappings THEN PortMap ELSE {}
           mapped_ports == {port \in listening : port \in port_map}
       IN  provider' =
             IF ~Found(provider, id)
             THEN Did(provider, [call EXCEPT !.outcome = "SandboxException"])
             ELSE Did(p0, [call EXCEPT
                             !.outcome = "docker",
                             !.links = BuildPreviewLinks(mapped_ports,
                                                         {OPENVSCODE_PORT})])
    /\ UNCHANGED <<chatVars, lim, sandbox, sock>>

\* ModalSandboxProvider.get_preview_links: the tunnels (the ports the sandbox
\* was created with) that listen and are not excluded; if the tunnels cannot
\* be read, every listening port that is not excluded.
ModalGetPreviewLinks(id, listening, tunnelsRead) ==
    /\ provider.ops < lim.ops
    /\ LET call == [NoCall EXCEPT !.op = "get_preview_links", !.id = id,
                                  !.listening = listening]
           tunnels == DOCKER_AVAILABLE_PORTS
       IN  provider' =
             IF ~Found(provider, id)
             THEN Did(provider, [call EXCEPT !.outcome = "SandboxException"])
             ELSE IF tunnelsRead
             THEN Did(provider,
                      [call EXCEPT
                         !.outcome = "modal",
                         !.links = {port \in tunnels :
                                       /\ port \in listening
                                       /\ port \notin EXCLUDED_PREVIEW_PORTS}])
             ELSE Did(provider,
                      [call EXCEPT
                         !.outcome = "modal fallback",
                         !.links = BuildPreviewLinks(listening,
                                                     EXCLUDED_PREVIEW_PORTS)])
    /\ UNCHANGED <<chatVars, lim, sandbox, sock>>

\* ------------------------------------------------------------------ reader
\* An inclusive, well-formed lower bound.
MinIdInclusive(lastEventId) == [open |-> "", id |-> lastEventId, close |-> ""]

\* The range start _create_event_stream builds from the Last-Event-ID:
\* f"({last_event_id})", or "-" without one.
MinId(lastEventId) ==
    IF lastEventId # NoCursor
    THEN [open |-> "(", id |-> lastEventId, close |-> ")"]
    ELSE [open |-> "", id |-> 0, close |-> ""]

\* A stream id the server accepts: digits (here a number >= 0), nothing after.
ValidId(id) == id >= 0

\* XRANGE key min +: "-" and a plain id are inclusive starts, "(" before the id
\* makes it exclusive; anything else after the id is a syntax error, which
\* _replay_stream_backlog logs and turns into an empty backlog.
XRange(s, min) ==
    IF min.close # "" \/ ~ValidId(min.id) THEN <<>>
    ELSE SelectSeq(s, LAMBDA e : IF min.open = "(" THEN e.id > min.id
                                 ELSE e.id >= min.id)

\* XREAD from the start of the stream, whatever was read before.
XReadFromStart(s, lastId, n) ==
    LET after == SelectSeq(s, LAMBDA e : e.id > NoCursor)
    IN  IF Len(after) > n THEN SubSeq(after, 1, n) ELSE after

\* XREAD COUNT n STREAMS key lastId: the first n entries after lastId.
XRead(s, lastId, n) ==
    LET after == SelectSeq(s, LAMBDA e : e.id > lastId)
    IN  IF Len(after) > n THEN SubSeq(after, 1, n) ELSE after

\* The SSE item made of a log entry.
Format(e) ==
    [id |-> e.id, event |-> e.kind,
     data |-> [event |-> e.event, ref |-> e.ref, error |-> e.text, status |-> ""]]
\* The synthetic terminal item of a cancelled stream; it carries no id.
Cancelled ==
    [id |-> 0, event |-> "complete",
     data |-> [event |-> NoEvent, ref |-> 0, error |-> "", status |-> "cancelled"]]

NoMonitor == [pc |-> "none", pending |-> FALSE]
IdleReader ==
    [pc |-> "idle", cursor |-> NoCursor, lastId |-> NoCursor, out |-> <<>>,
     clears0 |-> 0, backlog |-> 0]

RECURSIVE FormatAll(_)
FormatAll(s) == IF s = <<>> THEN <<>> ELSE <<Format(Head(s))>> \o FormatAll(Tail(s))

\* Every entry is yielded, whatever its kind.
YieldedAll(s) == s

\* The entries a loop over s yields: all of them up to and including the first
\* terminal one, after which the generator returns.
Yielded(s) ==
    IF FirstTerminal(s, 1) = 0 THEN s ELSE SubSeq(s, 1, FirstTerminal(s, 1))

\* The client receives items; the last one with an id becomes its Last-Event-ID.
RECURSIVE Receive(_, _)
Receive(c, items) ==
    IF items = <<>> THEN c
    ELSE Receive([c EXCEPT !.received = Append(@, Head(items)),
                           !.lastEventId = IF Head(items).id # 0 THEN Head(items).id
                                           ELSE @],
                 Tail(items))

\* _replay_stream_backlog: XRANGE from the range start, every entry yielded up
\* to the first terminal one.
ReplayStreamBacklog(s, min) == Yielded(XRange(s, min))

\* What _stream_live_redis_events sees of cancellation before its loop: the
\* revoked flag or the event.
AlreadyCancelled == revokedKey \/ cancelEvent

\* stream_events and _create_event_stream up to the live loop: the cursor is
\* the client's Last-Event-ID or none; the backlog is replayed; if it held no
\* terminal entry the cancellation monitor task is created and the revoked flag
\* is read, once.
ReaderConnects(cur) ==
    /\ reader.pc \in {"idle", "done"}
    /\ connects < lim.connects
    /\ connects' = connects + 1
    /\ LET backlog == ReplayStreamBacklog(stream, MinId(cur))
           ended == backlog # <<>> /\ IsTerminal(Last(backlog))
           lastId == IF backlog # <<>> THEN Last(backlog).id ELSE cur
           items == FormatAll(backlog)
                      \o IF ~ended /\ AlreadyCancelled THEN <<Cancelled>> ELSE <<>>
           live == ~ended /\ ~AlreadyCancelled
       IN  /\ reader' = [IdleReader EXCEPT
                           !.pc = IF live THEN "live" ELSE "done",
                           !.cursor = cur, !.lastId = lastId, !.out = items,
                           !.clears0 = hist.clears, !.backlog = Len(backlog)]
           /\ client' = Receive(
                  [client EXCEPT
                     !.clears0 = IF connects = 0 THEN hist.clears ELSE @,
                     !.refetched = @ \/ (cur = NoCursor /\ client.received # <<>>)],
                  items)
           /\ monitor' = IF live THEN [pc |-> "created", pending |-> FALSE]
                         ELSE NoMonitor
           /\ cancelEvent' = FALSE
    /\ UNCHANGED <<redisVars, queueVars, workerVars, trackerVars, poll,
                   cancels, hist, lim, boxVars>>

\* What one pass of the live loop sees of cancellation: the event.
LiveCancelSeen == cancelEvent

\* The answer one pass of the live loop works with: that of XREAD, or none when
\* XREAD raised on an id the server rejects (logged, slept on, polled again).
LiveAnswer(s, lastId) ==
    IF ValidId(lastId) THEN XRead(s, lastId, XREAD_COUNT) ELSE <<>>

\* One pass of the loop of _stream_live_redis_events: stop when cancellation is
\* seen, else XREAD after the last id and yield the answer up to a terminal
\* entry, which ends the connection (an empty answer is polled again).  The
\* finally of _create_event_stream cancels the monitor.
PollsLive ==
    /\ reader.pc = "live"
    /\ LET answer == LiveAnswer(stream, reader.lastId)
           fresh == SelectSeq(answer, LAMBDA e : e.id # reader.lastId)
           got == Yielded(fresh)
           ended == got # <<>> /\ IsTerminal(Last(got))
           items == IF LiveCancelSeen THEN <<Cancelled>> ELSE FormatAll(got)
       IN  /\ items # <<>>
           /\ reader' = [reader EXCEPT
                           !.pc = IF LiveCancelSeen \/ ended THEN "done" ELSE "live",
                           !.lastId = IF LiveCancelSeen THEN @ ELSE Last(got).id,
                           !.out = @ \o items]
           /\ client' = Receive(client, items)
           /\ monitor' = IF LiveCancelSeen \/ ended THEN NoMonitor ELSE monitor
    /\ UNCHANGED <<redisVars, queueVars, workerVars, trackerVars, poll,
                   cancelEvent, connects, cancels, hist, lim, boxVars>>

\* The client goes away: the generator is closed where it stands and its
\* finally cancels the monitor.
ClientDisconnects ==
    /\ reader.pc = "live"
    /\ reader' = [reader EXCEPT !.pc = "idle"]
    /\ monitor' = NoMonitor
    /\ UNCHANGED <<redisVars, queueVars, workerVars, trackerVars, poll,
                   cancelEvent, client, connects, cancels, hist, lim, boxVars>>

\* _monitor_stream_cancellation: the subscription takes effect.
MonitorSubscribes ==
    /\ monitor.pc = "created"
    /\ monitor' = [monitor EXCEPT !.pc = "subscribed"]
    /\ UNCHANGED <<redisVars, queueVars, workerVars, trackerVars, poll, reader,
                   cancelEvent, client, connects, cancels, hist, lim, boxVars>>

\* _monitor_stream_cancellation: a published message arrives, the event is set.
MonitorReceives ==
    /\ monitor.pc = "subscribed"
    /\ monitor.pending
    /\ cancelEvent' = TRUE
    /\ monitor' = [pc |-> "finished", pending |-> FALSE]
    /\ UNCHANGED <<redisVars, queueVars, workerVars, trackerVars, poll, reader,
                   client, connects, cancels, hist, lim, boxVars>>

\* ----------------------------------------------------------------- sandbox
\* The home tree of the sandbox: a few files of /home/user, each with its
\* directory below /home/user ("" for the top), base name and extension.
File(dir, base, ext) == [dir |-> dir, base |-> base, ext |-> ext]
Paths == { File("", "a", "txt"), File("src", "b", "txt"), File("", "app", "log") }
FileContents == {"x", "y"}
NoFile == "-"           \* the path does not exist
NoLink == 0             \* the checkpoint directory has no entry for the path
Names == 1..lim.checkpoints     \* checkpoint ids, in the order a glob lists them

\* SANDBOX_RESTORE_EXCLUDE_PATTERNS: a pattern without a slash matches the
\* last component of a path, a directory pattern excludes what is below it.
ExcludedNames ==
    { ".checkpoints", ".cache", "__pycache__", ".DS_Store", "dist", "build",
      ".next", ".nuxt" }
ExcludedExts == { "pyc", "pyo", "log" }
Excluded(p) == p.dir \in ExcludedNames \/ p.base \in ExcludedNames \/ p.ext \in ExcludedExts

\* The entries of /home/user itself; adding or removing one sets its mtime.
TopEntry(p) == IF p.dir = "" THEN <<p.base, p.ext>> ELSE <<p.dir>>
TopEntries(home) == { TopEntry(p) : p \in { q \in Paths : home[q] # NoFile } }

NewSandbox ==
    [home |-> [p \in Paths |-> NoFile], homeTime |-> 0, now |-> 0, base |-> FALSE,
     ckpts |-> {}, store |-> {}, created |-> 0, used |-> {}, taken |-> <<>>,
     writes |-> 0, restores |-> 0,
     last |-> [op |-> "", name |-> 0, before |-> [p \in Paths |-> NoFile]],
     recorded |-> {}, failed |-> {}]

\* The data of the file a checkpoint entry links to: the inode first written
\* by checkpoint number origin for path p.
Data(store, origin, p) ==
    (CHOOSE f \in store : f.origin = origin /\ f.path = p).data

\* What a checkpoint directory holds, path by path.
Content(store, c) ==
    [p \in Paths |-> IF c.tree[p] = NoLink THEN NoFile ELSE Data(store, c.tree[p], p)]

RECURSIVE ListCheckpoints(_)
\* list_checkpoints: the directories in glob order (by name), sorted by
\* created_at descending with a stable sort: among equal times the order of
\* the names is kept.  created_at is stat %Y of the directory, whole seconds.
ListCheckpoints(cs) ==
    IF cs = {} THEN <<>>
    ELSE LET c == CHOOSE x \in cs : \A y \in cs :
                      x.time > y.time \/ (x.time = y.time /\ x.name <= y.name)
         IN  <<c>> \o ListCheckpoints(cs \ {c})

\* _cleanup_old_checkpoints: everything after the first cap entries of the
\* listing is removed.
CleanupOldCheckpoints(cs, cap) ==
    LET l == ListCheckpoints(cs)
    IN  { l[i] : i \in 1..(IF Len(l) <= cap THEN Len(l) ELSE cap) }

\* The inodes still linked from some checkpoint directory.
Linked(store, cs) == { f \in store : \E c \in cs : c.tree[f.path] = f.origin }

\* The clock of the sandbox advances by a second.
Tick ==
    /\ sandbox.now < lim.ticks
    /\ sandbox' = [sandbox EXCEPT !.now = @ + 1]
    /\ UNCHANGED <<chatVars, lim, sock, provider>>

\* The agent (or write_file) creates, changes or deletes a file of the home
\* tree; a change of the entries of /home/user itself sets its mtime.
WriteFile(p, data) ==
    /\ sandbox.writes < lim.writes
    /\ data # sandbox.home[p]
    /\ LET home1 == [sandbox.home EXCEPT ![p] = data]
       IN  sandbox' = [sandbox EXCEPT
                         !.home = home1,
                         !.homeTime = IF TopEntries(home1) # TopEntries(sandbox.home)
                                      THEN sandbox.now ELSE @,
                         !.writes = @ + 1,
                         !.last = [@ EXCEPT !.op = "write"]]
    /\ UNCHANGED <<chatVars, lim, sock, provider>>

\* create_checkpoint: mkdir -p of the base directory (a new entry of
\* /home/user the first time), rsync -a --delete of /home/user/ into the
\* checkpoint directory, with --link-dest on the first directory of the
\* listing: a file equal to the one there is stored as a link to it.  rsync -a
\* gives the directory the mtime of its source, /home/user.  Then the cleanup.
CreateCheckpoint(name) ==
    /\ sandbox.created < lim.checkpoints
    /\ name \in Names \ sandbox.used
    /\ LET seq == sandbox.created + 1
           time == IF sandbox.base THEN sandbox.homeTime ELSE sandbox.now
           listing == ListCheckpoints(sandbox.ckpts)
           linkable(p) ==
               /\ listing # <<>>
               /\ listing[1].tree[p] # NoLink
               /\ Data(sandbox.store, listing[1].tree[p], p) = sandbox.home[p]
           tree == [p \in Paths |->
                      IF Excluded(p) \/ sandbox.home[p] = NoFile THEN NoLink
                      ELSE IF linkable(p) THEN listing[1].tree[p]
                      ELSE seq]
           store1 == sandbox.store \cup
                       { [origin |-> seq, path |-> p, data |-> sandbox.home[p]] :
                           p \in { q \in Paths : tree[q] = seq } }
           made == [name |-> name, seq |-> seq, time |-> time, tree |-> tree]
           kept == CleanupOldCheckpoints(sandbox.ckpts \cup {made}, lim.cap)
       IN  sandbox' = [sandbox EXCEPT
                         !.base = TRUE, !.homeTime = time,
                         !.ckpts = kept, !.store = Linked(store1, kept),
                         !.created = seq, !.used = @ \cup {name},
                         !.taken = Append(@, sandbox.home),
                         !.last = [@ EXCEPT !.op = "create", !.name = name],
                         !.recorded = @ \cup {name}]
    /\ UNCHANGED <<chatVars, lim, sock, provider>>

\* How the rsync of create_checkpoint can fail: execute_command raises (the
\* command timed out, the container is gone) or returns a nonzero exit code.
SyncFailures == {"raises", "nonzero"}

\* create_checkpoint whose rsync fails after copying the files of some paths.
\* If execute_command raised, the directory is removed and the exception goes
\* to _create_checkpoint_if_needed, which logs it; a CommandResult with a
\* nonzero exit code is not looked at: the cleanup runs, the id is returned and
\* _create_checkpoint_if_needed records it on the message.
CheckpointSyncFails(name, how, copied) ==
    /\ sandbox.created < lim.checkpoints
    /\ name \in Names \ sandbox.used
    /\ LET seq == sandbox.created + 1
           time == IF sandbox.base THEN sandbox.homeTime ELSE sandbox.now
           listing == ListCheckpoints(sandbox.ckpts)
           linkable(p) ==
               /\ listing # <<>>
               /\ listing[1].tree[p] # NoLink
               /\ Data(sandbox.store, listing[1].tree[p], p) = sandbox.home[p]
           tree == [p \in Paths |->
                      IF Excluded(p) \/ sandbox.home[p] = NoFile \/ p \notin copied
                      THEN NoLink
                      ELSE IF linkable(p) THEN listing[1].tree[p]
                      ELSE seq]
           store1 == sandbox.store \cup
                       { [origin |-> seq, path |-> p, data |-> sandbox.home[p]] :
                           p \in { q \in Paths : tree[q] = seq } }
           made == [name |-> name, seq |-> seq, time |-> time, tree |-> tree]
           kept == IF how = "raises" THEN sandbox.ckpts
                   ELSE CleanupOldCheckpoints(sandbox.ckpts \cup {made}, lim.cap)
       IN  sandbox' = [sandbox EXCEPT
                         !.base = TRUE, !.homeTime = time,
                         !.ckpts = kept, !.store = Linked(store1, kept),
                         !.created = seq, !.used = @ \cup {name},
                         !.taken = Append(@, sandbox.home),
                         !.last = [@ EXCEPT !.op = IF how = "raises" THEN "create_raised"
                                                  ELSE "create",
                                            !.name = name],
                         !.failed = @ \cup {name},
                         !.recorded = IF how = "raises" THEN @ ELSE @ \cup {name}]
    /\ UNCHANGED <<chatVars, lim, sock, provider>>

\* The tree rsync leaves in /home/user without --delete: what the checkpoint
\* does not hold stays.
RestoreTreeKeep(home, held) ==
    [p \in Paths |-> IF Excluded(p) \/ held[p] = NoFile THEN home[p] ELSE held[p]]

\* The tree rsync -a --delete with the exclude patterns leaves in /home/user:
\* that of the checkpoint, excluded paths left as they are.
RestoreTree(home, held) ==
    [p \in Paths |-> IF Excluded(p) THEN home[p] ELSE held[p]]

\* restore_checkpoint of an existing checkpoint directory (a missing one
\* raises FileNotFoundError and changes nothing).
RestoreCheckpoint(name) ==
    /\ sandbox.restores < lim.restores
    /\ \E c \in sandbox.ckpts :
          /\ c.name = name
          /\ sandbox' = [sandbox EXCEPT
                           !.home = RestoreTree(sandbox.home, Content(sandbox.store, c)),
                           !.homeTime = c.time,
                           !.restores = @ + 1,
                           !.last = [op |-> "restore", name |-> name,
                                     before |-> sandbox.home]]
    /\ UNCHANGED <<chatVars, lim, sock, provider>>

\* ----------------------------------------------------------- specifications
Limits(nEvents, eventSet, nTasks, nStarts, nSubmits, nCasts, nConnects, nCancels) ==
    [events |-> nEvents, eventSet |-> eventSet, tasks |-> nTasks,
     starts |-> nStarts, submits |-> nSubmits, broadcasts |-> nCasts,
     connects |-> nConnects, cancels |-> nCancels,
     errors |-> {"agent error"}, ck |-> {TRUE}, cursors |-> {},
     cap |-> 0, checkpoints |-> 0, writes |-> 0, restores |-> 0, ticks |-> 0,
     maxBuffer |-> 0, chunks |-> 0, calls |-> 0, ops |-> 0, ptys |-> 0,
     xadd |-> {TRUE}, pops |-> 0, args |-> {DefaultArgs}]

\* The state after deployment: no execution, an empty log, an empty slot.
ChatState(limits) ==
    /\ lim = limits
    /\ stream = <<>>
    /\ clock = 0
    /\ taskKey = NoTask
    /\ revokedKey = FALSE
    /\ queueKey = <<>>
    /\ dirty = {}
    /\ exec = <<>>
    /\ messages = <<>>
    /\ pulled = 0
    /\ starts = 0
    /\ tracker = "off"
    /\ trackerPublishes = 0
    /\ poll = [pc |-> "idle", latest |-> ""]
    /\ upsert = [c \in Clients |-> IdleUpsert]
    /\ submits = 0
    /\ nextQueueId = 1
    /\ reader = IdleReader
    /\ cancelEvent = FALSE
    /\ monitor = NoMonitor
    /\ client = [lastEventId |-> NoCursor, received |-> <<>>, clears0 |-> 0,
                 refetched |-> FALSE]
    /\ connects = 0
    /\ cancels = 0
    /\ hist = [clears |-> 0, cancelled |-> FALSE, popped |-> FALSE,
               injectTried |-> {}, injections |-> <<>>, committed |-> <<>>,
               checkpoints |-> {}, finals |-> {}, userRows |-> <<>>,
               pops |-> <<>>]

\* The same, with a sandbox just created and no transport connected.
InitState(limits) ==
    /\ ChatState(limits)
    /\ sandbox = NewSandbox
    /\ sock = NoSocket
    /\ provider = NewProvider

Tasks == 1..Len(exec)

\* The worker side: executions under the marker, the tracker, status polls.
Init ==
    InitState(Limits(MaxEvents, TextEvents, MaxTasks, MaxStarts, MaxQueued,
                     MaxBroadcasts, 0, MaxCancels))

Next ==
    \/ InitiateChatCompletion
    \/ \E t \in Tasks : WorkerConnect(t)
    \/ \E t \in Tasks, e \in lim.eventSet : ProcessEvent(t, e)
    \/ \E t \in Tasks, error \in lim.errors : StreamRaises(t, error)
    \/ \E t \in Tasks : StreamEnds(t)
    \/ \E t \in Tasks : ObserveCancel(t)
    \/ \E t \in Tasks : Cleanup(t)
    \/ CancelStream
    \/ PollReadsMessage
    \/ PollReadsMarker
    \/ \E t \in Tasks : TrackerStarts(t)
    \/ \E known \in BOOLEAN : FetchAndBroadcast(known)
    \/ TrackerChecks
    \/ UpsertBegins("u1", Str("a"))
    \/ UpsertExecutes("u1")

Spec == Init /\ [][Next]_vars

\* One execution with queue submissions arriving while it streams.
InjectInit ==
    InitState(Limits(InjectMaxEvents, Events, InjectMaxTasks, 1, InjectMaxSubmits,
                     0, 0, 0))

InjectNext ==
    \/ InitiateChatCompletion
    \/ \E t \in Tasks : WorkerConnect(t)
    \/ \E t \in Tasks, e \in lim.eventSet : ProcessEvent(t, e)
    \/ \E t \in Tasks, error \in lim.errors : StreamRaises(t, error)
    \/ \E t \in Tasks : StreamEnds(t)
    \/ \E t \in Tasks : Cleanup(t)
    \/ UpsertBegins("u1", Str("a"))
    \/ UpsertExecutes("u1")

InjectSpec == InjectInit /\ [][InjectNext]_vars

\* The same executions over a Redis whose XADD may fail: publish logs the
\* failure and returns.
LossyInit ==
    InitState([Limits(InjectMaxEvents, Events, InjectMaxTasks, 1, InjectMaxSubmits,
                      0, 0, 0) EXCEPT !.xadd = BOOLEAN])

LossySpec == LossyInit /\ [][InjectNext]_vars

\* The same executions with an agent process that may exit while its last
\* events are still being read.
FragileNext ==
    \/ InjectNext
    \/ \E t \in Tasks : ProcessExits(t)

FragileSpec == InjectInit /\ [][FragileNext]_vars

\* The outcomes of an execution: one user-initiated completion and its
\* continuations, ended by the stream, a fault, a cancel request or the
\* cancellation of the worker's task.
OutcomeInit ==
    InitState([Limits(OutcomeMaxEvents, TextEvents, OutcomeMaxTasks, 1,
                      OutcomeMaxSubmits, 0, 0, OutcomeMaxCancels)
                  EXCEPT !.errors = Errors, !.ck = BOOLEAN])

OutcomeNext ==
    \/ InitiateChatCompletion
    \/ \E t \in Tasks : WorkerConnect(t)
    \/ \E t \in Tasks, e \in lim.eventSet : ProcessEvent(t, e)
    \/ \E t \in Tasks, error \in lim.errors : StreamRaises(t, error)
    \/ \E t \in Tasks : StreamEnds(t)
    \/ \E t \in Tasks : ObserveCancel(t)
    \/ \E t \in Tasks : TaskCancelled(t)
    \/ \E t \in Tasks : Cleanup(t)
    \/ CancelStream
    \/ UpsertBegins("u1", Str("a"))
    \/ UpsertExecutes("u1")

OutcomeSpec == OutcomeInit /\ [][OutcomeNext]_vars

\* Concurrent submissions to the queued-message slot.
QueueInit == InitState(Limits(0, {}, 0, 0, QueueMaxSubmits, 0, 0, 0))

QueueNext ==
    \/ \E c \in Clients, content \in Contents : UpsertBegins(c, Str(content))
    \/ \E c \in Clients : UpsertExecutes(c)
    \/ ClearQueue

QueueSpec == QueueInit /\ [][QueueNext]_vars

\* Submissions and edits by two clients against pops by the workers.
PopInit ==
    InitState([Limits(0, {}, 0, 0, PopMaxSubmits, 0, 0, 0) EXCEPT !.pops = PopMaxPops])

PopNext ==
    \/ \E c \in Clients, content \in Contents : UpsertBegins(c, Str(content))
    \/ \E c \in Clients : UpsertExecutes(c)
    \/ \E c \in Clients : UpdateBegins(c, Str("e"))
    \/ \E c \in Clients : UpdateExecutes(c)
    \/ QueuePop

PopSpec == PopInit /\ [][PopNext]_vars

\* Resubmissions that pass other models, modes and attachments than the first.
SubmitArgs ==
    {DefaultArgs,
     [model_id |-> "m2", permission_mode |-> "plan", thinking_mode |-> "high",
      attachments |-> <<"f1">>],
     [model_id |-> "m1", permission_mode |-> "auto", thinking_mode |-> "",
      attachments |-> <<"f2">>]}

ResubmitInit ==
    InitState([Limits(0, {}, 0, 0, ResubmitMaxSubmits, 0, 0, 0) EXCEPT !.args = SubmitArgs])

ResubmitSpec == ResubmitInit /\ [][QueueNext]_vars

\* A client reading the log of executions that start, stream, end, fail, are
\* cancelled or are killed.
ReaderInit ==
    InitState(Limits(ReaderMaxEvents, TextEvents, ReaderMaxTasks,
                     ReaderMaxStarts, 0, 0, MaxConnects,
                     ReaderMaxCancels))

ReaderNext ==
    \/ InitiateChatCompletion
    \/ \E t \in Tasks : WorkerConnect(t)
    \/ \E t \in Tasks, e \in lim.eventSet : ProcessEvent(t, e)
    \/ \E t \in Tasks, error \in lim.errors : StreamRaises(t, error)
    \/ \E t \in Tasks : StreamEnds(t)
    \/ \E t \in Tasks : ObserveCancel(t)
    \/ \E t \in Tasks : Cleanup(t)
    \/ \E t \in Tasks : HardKill(t)
    \/ CancelStream
    \/ \E cur \in {NoCursor, client.lastEventId} \cup lim.cursors : ReaderConnects(cur)
    \/ ClientDisconnects
    \/ PollsLive
    \/ MonitorSubscribes
    \/ MonitorReceives

ReaderSpec == ReaderInit /\ [][ReaderNext]_vars

\* The reader and its monitor are tasks of the event loop of the API process:
\* each is run whenever it can take a step, whatever the worker and the user do.
ReaderFairInit ==
    InitState(Limits(FairMaxEvents, TextEvents, FairMaxTasks, FairMaxStarts, 0, 0,
                     FairMaxConnects, FairMaxCancels))

ReaderFairSpec ==
    /\ ReaderFairInit
    /\ [][ReaderNext]_vars
    /\ WF_vars(PollsLive)
    /\ WF_vars(MonitorSubscribes)
    /\ WF_vars(MonitorReceives)

\* The checkpoints of one sandbox: files written, checkpoints created under
\* ids in any name order, checkpoints restored, with the clock advancing or not
\* between any two of these.
SandboxInit ==
    InitState([Limits(0, {}, 0, 0, 0, 0, 0, 0)
                  EXCEPT !.cap = RetentionCap, !.checkpoints = SandboxMaxCheckpoints,
                         !.writes = SandboxMaxWrites, !.restores = SandboxMaxRestores,
                         !.ticks = SandboxMaxTicks])

SandboxNext ==
    \/ Tick
    \/ \E p \in Paths, data \in FileContents \cup {NoFile} : WriteFile(p, data)
    \/ \E name \in Names : CreateCheckpoint(name)
    \/ \E name \in Names : RestoreCheckpoint(name)

SandboxSpec == SandboxInit /\ [][SandboxNext]_vars

\* Checkpoints whose rsync may fail.
SyncInit ==
    InitState([Limits(0, {}, 0, 0, 0, 0, 0, 0)
                  EXCEPT !.cap = RetentionCap, !.checkpoints = SyncMaxCheckpoints,
                         !.writes = SyncMaxWrites])

SyncNext ==
    \/ \E p \in Paths, data \in FileContents \cup {NoFile} : WriteFile(p, data)
    \/ \E name \in Names : CreateCheckpoint(name)
    \/ \E name \in Names, how \in SyncFailures, copied \in SUBSET Paths :
          CheckpointSyncFails(name, how, copied)

SyncSpec == SyncInit /\ [][SyncNext]_vars

\* The socket reader of one transport: the process writes any sequence of
\* stdout and stderr frames, the socket hands the bytes over in reads of any
\* sizes.
Payloads == UNION { [1..n -> PayloadBytes] : n \in 0..FrameMaxPayload }
FrameSeqs ==
    UNION { [1..n -> { Frame(type, payload) : type \in {STDOUT, STDERR},
                                               payload \in Payloads }] :
              n \in 0..MaxFrames }

FrameInit ==
    /\ ChatState([Limits(0, {}, 0, 0, 0, 0, 0, 0) EXCEPT !.maxBuffer = FrameMaxBuffer])
    /\ sandbox = NewSandbox
    /\ provider = NewProvider
    /\ \E frames \in FrameSeqs : sock = Connected(frames)

FrameNext == \E n \in 1..Len(sock.sent) : ReadSocketData(n)

FrameSpec == FrameInit /\ [][FrameNext]_vars

\* One transport from connect to close: the process writes chunks, the
\* consumer of read_messages takes them, the user writes and ends input, and
\* close is called at any moment.  The consumer and close are coroutines of
\* the event loop: each runs whenever it can take a step.
TransportInit ==
    InitState([Limits(0, {}, 0, 0, 0, 0, 0, 0)
                  EXCEPT !.chunks = TransportMaxChunks, !.calls = TransportMaxCalls])

\* Stdout texts made of JSON values, one to a line.
StdoutTexts ==
    {<<"[", QUOTE, "x", " ", "y", QUOTE, "]", "\n">>,
     <<"{", "}", "\n", "[", QUOTE, "x", QUOTE, "]", "\n">>,
     <<"[", QUOTE, "x", QUOTE, "]", "\r", "\n", "{", TYPE_RESULT, "}", "\n", "[", "]">>,
     <<"{", TYPE_RESULT, "}", " ", "[", "]", "\n">>}

\* The ways the socket reader may queue a text: in up to ParseMaxChunks chunks,
\* none of them empty.
Splits(text) ==
    {SelectSeq(<<SubSeq(text, 1, i), SubSeq(text, i + 1, j),
                 SubSeq(text, j + 1, Len(text))>>, LAMBDA c : c # <<>>) :
        <<i, j>> \in {ij \in (0..Len(text)) \X (0..Len(text)) : ij[1] <= ij[2]}}

\* The parser of the stdout text over every text and every split of it.
ParseInit ==
    /\ ChatState([Limits(0, {}, 0, 0, 0, 0, 0, 0) EXCEPT !.maxBuffer = ParseMaxBuffer])
    /\ sandbox = NewSandbox
    /\ provider = NewProvider
    /\ \E text \in StdoutTexts : \E chunks \in Splits(text) :
          /\ Len(chunks) <= ParseMaxChunks
          /\ sock = [NoSocket EXCEPT !.text = text, !.stdout = chunks]

ParseNext == ParseChunk \/ ParseEnds

ParseSpec == ParseInit /\ [][ParseNext]_vars

TransportNext ==
    \/ TransportConnects
    \/ ReaderPuts
    \/ \E how \in Exits : MonitorEnds(how)
    \/ ReaderEnds
    \/ ReadMessages
    \/ Write
    \/ EndInput
    \/ Close

TransportFairSpec ==
    /\ TransportInit
    /\ [][TransportNext]_vars
    /\ WF_vars(ReadMessages)
    /\ WF_vars(Close)

\* The agent process ends by itself while its output is read; nobody calls
\* close before the iteration of read_messages has ended.  The monitor, the
\* socket reader and the consumer are tasks of the event loop.
ExitNext ==
    \/ TransportConnects
    \/ ReaderPuts
    \/ \E how \in Exits : MonitorEnds(how)
    \/ ReaderEnds
    \/ ReadMessages

ExitFairSpec ==
    /\ TransportInit
    /\ [][ExitNext]_vars
    /\ WF_vars(ReaderEnds)
    /\ WF_vars(ReadMessages)

\* ------------------------------------------------------- scheduled runs
\* execute_scheduled_task_async returns before a TaskExecution in RUNNING
\* state exists: duplicate, task or user missing, task disabled (nothing is
\* written), or keys not configured (validate_user_api_keys adds a FAILED row).
RunReturnsEarly(k, why) ==
    /\ provider.runs[k].pc = "idle"
    /\ provider' = [provider EXCEPT
                      !.runs[k] = [@ EXCEPT
                          !.pc = "returned", !.result = why,
                          !.execution = IF why = "invalid_keys" THEN "FAILED"
                                        ELSE "none"]]
    /\ UNCHANGED <<chatVars, lim, sandbox, sock>>

\* The TaskExecution row is added in RUNNING state and committed.
RunStarts(k) ==
    /\ provider.runs[k].pc = "idle"
    /\ provider' = [provider EXCEPT !.runs[k] = [@ EXCEPT !.pc = "sandbox",
                                                          !.execution = "RUNNING"]]
    /\ UNCHANGED <<chatVars, lim, sandbox, sock>>

\* What is left once the except of the outermost try has logged the error.
FatalError(run) == [run EXCEPT !.pc = "returned", !.result = "error"]

\* create_and_initialize_sandbox: create_sandbox, then initialize_sandbox;
\* either may raise, which only the outermost try catches.
CreateAndInitializeSandbox(k, outcome) ==
    /\ provider.runs[k].pc = "sandbox"
    /\ provider' = [provider EXCEPT
                      !.runs[k] =
                         CASE outcome = "ok" ->
                                [@ EXCEPT !.pc = "context", !.box = "created"]
                           [] outcome = "create_raises" -> FatalError(@)
                           [] outcome = "initialize_raises" ->
                                FatalError([@ EXCEPT !.box = "created"])]
    /\ UNCHANGED <<chatVars, lim, sandbox, sock>>

\* The finally around the chat context and the stream: delete_sandbox.
DeleteRunSandbox(run) == [run EXCEPT !.box = "deleted"]

\* setup_execution_chat_context; an exception passes the finally and is
\* caught by the outermost try.
SetupExecutionChatContext(k, ok) ==
    /\ provider.runs[k].pc = "context"
    /\ provider' = [provider EXCEPT
                      !.runs[k] = IF ok THEN [@ EXCEPT !.pc = "stream"]
                                  ELSE FatalError(DeleteRunSandbox(@))]
    /\ UNCHANGED <<chatVars, lim, sandbox, sock>>

\* How run_chat_stream ends: it returns (also after a user's cancel, which it
\* handles itself), raises an exception, or lets a CancelledError through.
StreamOutcomes == {"returns", "interrupted", "raises", "cancelled"}

\* execute_task_in_sandbox and what follows it: SUCCESS after a return, FAILED
\* in the except Exception, which a CancelledError is not; the finally
\* deletes the sandbox.
ExecuteTaskInSandbox(k, outcome) ==
    /\ provider.runs[k].pc = "stream"
    /\ provider' = [provider EXCEPT
                      !.runs[k] =
                         CASE outcome \in {"returns", "interrupted"} ->
                                DeleteRunSandbox([@ EXCEPT !.pc = "returned",
                                                           !.execution = "SUCCESS",
                                                           !.result = "success"])
                           [] outcome = "raises" ->
                                DeleteRunSandbox([@ EXCEPT !.pc = "returned",
                                                           !.execution = "FAILED",
                                                           !.result = "error"])
                           [] outcome = "cancelled" ->
                                DeleteRunSandbox([@ EXCEPT !.pc = "returned",
                                                           !.result = "cancelled"])]
    /\ UNCHANGED <<chatVars, lim, sandbox, sock>>

\* The runs of the scheduled tasks, each in its own worker task.
RunInit == InitState(Limits(0, {}, 0, 0, 0, 0, 0, 0))

RunNext ==
    \/ \E k \in SchedTasks, why \in {"skipped", "not_found", "invalid_keys"} :
          RunReturnsEarly(k, why)
    \/ \E k \in SchedTasks : RunStarts(k)
    \/ \E k \in SchedTasks,
          outcome \in {"ok", "create_raises", "initialize_raises"} :
          CreateAndInitializeSandbox(k, outcome)
    \/ \E k \in SchedTasks, ok \in BOOLEAN : SetupExecutionChatContext(k, ok)
    \/ \E k \in SchedTasks, outcome \in StreamOutcomes : ExecuteTaskInSandbox(k, outcome)

RunSpec == RunInit /\ [][RunNext]_vars

\* One provider and the calls made on it, in any order, addressed to ids
\* that exist and ids that do not.
ProviderInit ==
    InitState([Limits(0, {}, 0, 0, 0, 0, 0, 0)
                  EXCEPT !.ops = ProviderMaxOps, !.ptys = ProviderMaxPtys])

ProviderNext ==
    \/ \E id \in SandboxIds : ExecuteCommand(id)
    \/ \E id \in SandboxIds, ck \in {"known", "stale"} : RestoreCheckpointOn(id, ck)
    \/ \E id \in SandboxIds, onData \in BOOLEAN : CreatePty(id, onData)
    \/ \E op \in {"send_pty_input", "resize_pty"}, id \in SandboxIds, sid \in PtyIds :
          PtyCall(op, id, sid)
    \/ \E id \in SandboxIds, sid \in PtyIds : KillPty(id, sid)
    \/ \E id \in SandboxIds, sid \in PtyIds : PtyReaderEnds(id, sid)
    \/ \E id \in SandboxIds, removed \in BOOLEAN : DeleteSandbox(id, removed)
    \/ \E ck \in {"", "known", "stale"}, failAt \in CloneSteps \cup {"none"},
          removed \in BOOLEAN, imageRemoved \in BOOLEAN :
          CloneSandbox(ck, failAt, removed, imageRemoved)
    \/ \E id \in SandboxIds, listening \in ListeningSets : GetPreviewLinks(id, listening)
    \/ \E id \in SandboxIds, listening \in ListeningSets, tunnelsRead \in BOOLEAN :
          ModalGetPreviewLinks(id, listening, tunnelsRead)

ProviderSpec == ProviderInit /\ [][ProviderNext]_vars

\* The same tasks, with a client that may also send a Last-Event-ID that is
\* not a stream id.
CursorFairInit ==
    InitState([Limits(FairMaxEvents, TextEvents, FairMaxTasks, FairMaxStarts, 0, 0,
                      CursorMaxConnects, FairMaxCancels)
                  EXCEPT !.cursors = {Malformed}])

CursorFairSpec ==
    /\ CursorFairInit
    /\ [][ReaderNext]_vars
    /\ WF_vars(PollsLive)
    /\ WF_vars(MonitorSubscribes)
    /\ WF_vars(MonitorReceives)

\* -------------------------------------------------------------- properties
IsPrefix(a, b) == Len(a) <= Len(b) /\ a = SubSeq(b, 1, Len(a))

\* The connection saw no log clear and no cancel request was ever made.
Undisturbed(since) == hist.clears = since /\ ~hist.cancelled

\* C1 (ordering): a reader that connected with no cursor, with no log clear
\* since and no cancellation, has received the entries of the log each once and
\* in log order; when it has stopped it has received exactly the entries up to
\* and including the terminal entry, and that entry is the last thing it got.
C1_Ordering ==
    (reader.pc \in {"live", "done"} /\ reader.cursor = NoCursor
        /\ Undisturbed(reader.clears0))
    => /\ IsPrefix(reader.out, FormatAll(stream))
       /\ reader.pc = "done"
          => /\ FirstTerminal(stream, 1) # 0
             /\ reader.out = FormatAll(Yielded(stream))

\* A fresh reader that tailed the log live has stopped on the terminal entry
\* after two content events.
C1_Witness ==
    /\ reader.pc = "done" /\ reader.cursor = NoCursor
    /\ Undisturbed(reader.clears0)
    /\ Len(reader.out) = 3
    /\ reader.out[1].event = "content" /\ reader.out[3].event = "complete"
    /\ connects = 1

\* What the client had received when the present connection was made.
PriorItems == SubSeq(client.received, 1, Len(client.received) - Len(reader.out))

\* The client resumed every connection after the first with its Last-Event-ID,
\* the id of an event it had consumed before any terminal event, and no log was
\* cleared since it first connected.
Resumed ==
    /\ reader.cursor # NoCursor
    /\ ~client.refetched
    /\ hist.clears = client.clears0
    /\ \A k \in 1..Len(PriorItems) : PriorItems[k].event \notin TERMINAL_KINDS

\* C2 as stated (resume): a reader that reconnected with the id of the last
\* event it had consumed and has stopped has received, over its connections,
\* every log entry up to the terminal one exactly once and in order.
C2_ResumeAsStated ==
    (reader.pc = "done" /\ Resumed)
    => /\ FirstTerminal(stream, 1) # 0
       /\ client.received = FormatAll(Yielded(stream))

\* C2 (resume), amended: the same provided no cancel was requested either.
C2_Resume ==
    (reader.pc \in {"live", "done"} /\ Resumed /\ ~hist.cancelled)
    => /\ IsPrefix(client.received, FormatAll(stream))
       /\ reader.pc = "done"
          => /\ FirstTerminal(stream, 1) # 0
             /\ client.received = FormatAll(Yielded(stream))

\* A client that had consumed one event reconnected with its id and received
\* the second event and the terminal entry.
C2_Witness ==
    /\ reader.pc = "done" /\ Resumed /\ ~hist.cancelled
    /\ reader.cursor = client.received[1].id
    /\ Len(client.received) = 3
    /\ Len(reader.out) = 2

\* C3 (terminal liveness): a reader tailing the log of an execution that was
\* killed eventually stops, without any cancel request being made.
C3_TerminalLiveness ==
    (reader.pc = "live" /\ cancels = 0 /\ \E t \in Tasks : exec[t].pc = "dead")
        ~> (reader.pc # "live" \/ cancels # 0)

\* C4 (cancellation responsiveness): once a cancel request has set the revoked
\* flag, a reader in the live phase eventually stops.
C4_CancelResponsive ==
    (reader.pc = "live" /\ revokedKey) ~> (reader.pc # "live")

\* C5 (marker): while an execution is streaming the active-task marker is
\* present.
C5_MarkerPresent ==
    \A t \in Tasks : exec[t].pc = "streaming" => taskKey # NoTask

\* C6 (one stream per chat): at no time are two executions streaming into the
\* log of the chat.
C6_SingleStream ==
    Cardinality({t \in Tasks : exec[t].pc = "streaming"}) <= 1

TopLevelToolCompletion(e) == e.type = "tool_completed" /\ e.parent = ""

\* C8 (injection eligibility): check_and_inject (the pop of the queued message
\* and the transport write) is attempted only for a tool_completed event whose
\* tool has no parent; every injection was triggered by such an event.
C8_Eligibility ==
    /\ \A e \in hist.injectTried : TopLevelToolCompletion(e)
    /\ \A i \in 1..Len(hist.injections) :
           TopLevelToolCompletion(Last(hist.injections[i].seen))
    /\ \A t \in Tasks :
           Len(exec[t].written) = Cardinality({i \in 1..Len(hist.injections) :
                                                 hist.injections[i].task = t})

\* A nested tool completion was observed and the queued message is still
\* waiting; a top-level one was observed without a message to inject.
C8_Witness ==
    /\ queueKey # <<>>
    /\ hist.injectTried # {}
    /\ \E t \in Tasks : \E k \in 1..Len(exec[t].seg) :
           exec[t].seg[k] = Ev("tool_completed", "p1")

RECURSIVE JoinContents(_)
\* The contents of the committed submissions, joined by newlines.
JoinContents(cs) ==
    IF Len(cs) = 1 THEN cs[1].content
    ELSE JoinContents(SubSeq(cs, 1, Len(cs) - 1)) \o <<"\n">> \o Last(cs).content

\* C9 (queued-message slot): with no pop or clear, after any interleaving of
\* submissions the slot holds one message, under the id of the first committed
\* submission, whose content is every submitted content joined by newlines; no
\* submission is lost, provided none ran out of retries.
C9_AppendNotOverwrite ==
    (~hist.popped /\ \A c \in Clients : upsert[c].pc # "failed")
    => /\ hist.committed # <<>>
          => /\ Len(queueKey) = 1
             /\ queueKey[1].id = hist.committed[1].id
             /\ queueKey[1].content = JoinContents(hist.committed)
       /\ (\A c \in Clients : upsert[c].pc # "read")
          => Len(hist.committed) = submits

\* Two submissions overlapped: one of them hit a WatchError and was retried;
\* both are in the slot.
C9_Witness ==
    /\ ~hist.popped
    /\ Len(hist.committed) = 2
    /\ \E c \in Clients : upsert[c].pc = "done" /\ upsert[c].attempts = 2
    /\ Len(queueKey[1].content) = 3

\* C10 (terminal entries are final): nothing follows a complete or error entry
\* in the log.
C10_TerminalFinal ==
    FirstTerminal(stream, 1) \in {0, Len(stream)}

\* C11: an execution that has left streaming (it is in cleanup or done) has
\* its assistant message in one of COMPLETED, FAILED, INTERRUPTED.
C11_TerminalStatus ==
    \A t \in Tasks :
        exec[t].pc \in {"cleanup", "done"} =>
            messages[exec[t].asst].status \in TERMINAL_STATUSES

\* Entries of the log written by execution t, of one kind.
EntriesBy(t, kind) == { i \in 1..Len(stream) : stream[i].by = t /\ stream[i].kind = kind }

\* C12: every execution ended by a cancellation (the cooperative signal or the
\* cancellation of its task) left its message INTERRUPTED with the events
\* accumulated so far, wrote a terminal entry and no error entry to the log,
\* and raised StreamCancelled to its caller.
C12_CancelOutcome ==
    \A t \in Tasks :
        exec[t].raised \in {"StreamCancelled", "CancelledError"} =>
            /\ messages[exec[t].asst].status = "INTERRUPTED"
            /\ messages[exec[t].asst].content = exec[t].events
            /\ EntriesBy(t, "complete") # {}
            /\ EntriesBy(t, "error") = {}
            /\ exec[t].raised = "StreamCancelled"

\* The continuation executions dispatched for the assistant message ref.
ContinuationsFor(ref) == { u \in Tasks : exec[u].cont /\ exec[u].asst = ref }

\* What a COMPLETED turn left behind: f is its record in hist.finals.
CompletedAsStated(f) ==
    LET t == f.task
        qp == EntriesBy(t, "queue_processing")
        cp == EntriesBy(t, "complete")
    IN  IF f.queued # <<>>
        THEN /\ Cardinality(qp) = 1
             /\ cp = {}
             /\ \A i \in qp :
                   /\ stream[i].ref \in DOMAIN messages
                   /\ stream[i].ref # exec[t].asst
                   /\ Cardinality(ContinuationsFor(stream[i].ref)) = 1
                   /\ \A u \in ContinuationsFor(stream[i].ref) :
                         u # t /\ exec[u].prompt = f.queued[1].content
             /\ \E k \in DOMAIN hist.userRows : hist.userRows[k] = f.queued[1].content
        ELSE /\ qp = {}
             /\ Cardinality(cp) = 1

\* The step in which execution t ends COMPLETED.
CompletesIn(t) == exec[t].outcome = "" /\ exec'[t].outcome = "COMPLETED"

C19_CheckpointPerTurn ==
    \A m \in DOMAIN messages :
        /\ messages[m].status = "COMPLETED" =>
              \E c \in hist.checkpoints : c.msg = m
        /\ messages[m].status \in {"FAILED", "INTERRUPTED"} =>
              \A c \in hist.checkpoints : c.msg # m

\* C15: whatever Last-Event-ID the client sent (none, one that is not a stream
\* id, one of an earlier log), a reader in the live phase with a terminal
\* entry in the log beyond what it has read eventually leaves the live phase.
C15_CursorTolerance ==
    (/\ reader.pc = "live"
     /\ \E i \in DOMAIN stream :
           /\ IsTerminal(stream[i])
           /\ ValidId(reader.lastId) => stream[i].id > reader.lastId)
        ~> (reader.pc # "live")

\* The step in which a connection is opened.
ConnectsIn == connects' = connects + 1

C17_Retention ==
    LET l == ListCheckpoints(sandbox.ckpts)
    IN  /\ Cardinality(sandbox.ckpts) =
              (IF sandbox.created <= lim.cap THEN sandbox.created ELSE lim.cap)
        /\ \A c \in sandbox.ckpts : c.seq > sandbox.created - lim.cap
        /\ \A i, j \in DOMAIN l : i < j => l[i].seq > l[j].seq

\* The part of C17 that does not depend on the order of the listing: never more
\* checkpoints than the cap.
RetentionBounded == Cardinality(sandbox.ckpts) <= lim.cap

\* The step in which a checkpoint is restored.
RestoresIn == sandbox'.restores = sandbox.restores + 1

\* C18: every retained checkpoint holds, for every path outside the exclude
\* patterns, the content the home tree had when it was created, whatever was
\* created or pruned since; and restoring it leaves the home tree with
\* exactly that content on those paths, files added since removed.
C18_RoundTrip ==
    /\ [](\A c \in sandbox.ckpts : \A p \in Paths :
              ~Excluded(p) => Content(sandbox.store, c)[p] = sandbox.taken[c.seq][p])
    /\ [][RestoresIn =>
             \E c \in sandbox.ckpts :
                /\ c.name = sandbox'.last.name
                /\ \A p \in Paths :
                      ~Excluded(p) => sandbox'.home[p] = sandbox.taken[c.seq][p]]_vars

\* A checkpoint was restored after a file it holds was changed and a file was
\* added, and after a later checkpoint was created: the change is undone and
\* the added file is gone.
C18_Witness ==
    /\ sandbox.last.op = "restore"
    /\ \E c \in sandbox.ckpts :
          /\ c.name = sandbox.last.name
          /\ c.seq < sandbox.created
          /\ \E p \in Paths :
                /\ ~Excluded(p)
                /\ sandbox.last.before[p] # NoFile
                /\ sandbox.home[p] = NoFile
          /\ \E q \in Paths :
                /\ ~Excluded(q)
                /\ sandbox.home[q] # NoFile
                /\ sandbox.last.before[q] # sandbox.home[q]

RECURSIVE StdoutPayloads(_)
\* The decoded payloads of the stdout frames of a sequence of frames.
StdoutPayloads(frames) ==
    IF frames = <<>> THEN <<>>
    ELSE (IF Head(frames).type = STDOUT THEN <<Decode(Head(frames).payload)>> ELSE <<>>)
           \o StdoutPayloads(Tail(frames))

\* C20: once every byte of the stream has been read, in reads of whatever
\* sizes, the queue holds what a single read of the whole stream puts there,
\* which is the payloads of its stdout frames, each once and in order.
C20_Framing ==
    sock.wire = <<>> =>
        /\ sock.queue = Drain(sock.sent, <<>>, lim.maxBuffer).queue
        /\ sock.queue = StdoutPayloads(sock.frames)

\* The same for streams none of whose frames exceeds max_buffer_size.
FramingWithinLimit ==
    (\A i \in DOMAIN sock.frames : Len(sock.frames[i].payload) <= lim.maxBuffer)
        => C20_Framing

\* C21: close goes through its steps in the stated order, and once it has
\* returned a consumer iterating read_messages eventually ends.
C21_CloseUnblocks ==
    /\ [](sock.closing = "closed" =>
             sock.trail = <<"end_input", "cancel_monitor", "cleanup_resources",
                            "put_sentinel">>)
    /\ (sock.closing = "closed" /\ sock.consumer = "reading") ~> (sock.consumer = "done")

\* A call of write or end_input has just returned.
Called(op) == sock'.calls = sock.calls + 1 /\ sock'.result.op = op

\* C22: write raises a connection error and sends nothing whenever the
\* transport is not ready or input has been closed; EOF is sent at most once;
\* end_input after a successful one sends nothing, and end_input on a
\* transport that is not ready changes nothing.
C22_InputSide ==
    /\ [](sock.sentEof <= 1)
    /\ [][/\ (Called("write") /\ (~sock.ready \/ sock.stdinClosed))
                => /\ sock'.result.outcome = "CLIConnectionError"
                   /\ sock'.sentData = sock.sentData
                   /\ sock'.sentEof = sock.sentEof
          /\ (Called("end_input") /\ sock.stdinClosed)
                => /\ sock'.sentEof = sock.sentEof
                   /\ sock'.sentData = sock.sentData
          /\ (Called("end_input") /\ ~sock.ready)
                => sock' = [sock EXCEPT !.calls = @ + 1,
                                        !.result = [op |-> "end_input",
                                                    outcome |-> "no-op"]]]_vars

\* A write on a ready transport after end_input has sent EOF was refused.
C22_Witness ==
    /\ sock.ready /\ sock.socket /\ sock.stdinClosed
    /\ sock.sentEof = 1 /\ sock.sentData = 0
    /\ sock.result = [op |-> "write", outcome |-> "CLIConnectionError"]

\* A call of the provider has just returned or raised.
ProviderCalled(op) == provider'.ops = provider.ops + 1 /\ provider'.last.op = op

\* C23: when a step of clone_sandbox fails, the new container is gone, the
\* caches hold no entry for the new id, the snapshot image is removed, the
\* error reaches the caller, and the source's cached state is as it was.
C23_CloneRollback ==
    [][(ProviderCalled("clone_sandbox") /\ provider'.last.outcome \in CloneSteps)
          => /\ "new" \notin provider'.docker
             /\ "new" \notin provider'.containers
             /\ "new" \notin provider'.portMappings
             /\ "snapshot" \notin provider'.images
             /\ "src" \in provider'.docker
             /\ provider'.containers = provider.containers \cup {"src"}
             /\ provider'.portMappings = provider.portMappings \cup {"src"}
             /\ provider'.pty = provider.pty
             /\ provider'.readers = provider.readers]_vars

\* C24: once delete_sandbox has returned, the session table holds no PTY
\* session of that sandbox and no PTY reader task of it is running.
C24_DeleteCleansPty ==
    provider.last.op = "delete_sandbox" =>
        \A e \in provider.pty \cup provider.readers : e[1] # provider.last.id

\* Outcomes that tell the caller the addressed thing does not exist: the
\* FileNotFoundError of restore_checkpoint and the SandboxException of
\* _get_container, whose message says "not found".
NotFoundOutcomes == {"FileNotFoundError", "SandboxException"}

\* The call that has just returned was addressed to a sandbox id, a
\* checkpoint id or a PTY session id that names nothing.
StaleCall ==
    LET c == provider'.last
    IN  /\ provider'.ops = provider.ops + 1
        /\ \/ c.op \in {"restore_checkpoint", "execute_command"} /\ ~Found(provider, c.id)
           \/ c.op = "restore_checkpoint" /\ c.ck = "stale"
           \/ /\ c.op \in {"send_pty_input", "resize_pty", "kill_pty"}
              /\ <<c.id, c.sid>> \notin provider.pty

\* C25: a call addressed to a stale sandbox, checkpoint or PTY session id
\* reports a not-found outcome and changes no state (the runtime's containers
\* and images, the PTY sessions and their reader tasks stay as they were; a
\* handle cached by the lookup of a sandbox that exists is not counted).
C25_NotFoundDistinct ==
    [][StaleCall => /\ provider'.last.outcome \in NotFoundOutcomes
                    /\ provider'.docker = provider.docker
                    /\ provider'.images = provider.images
                    /\ provider'.pty = provider.pty
                    /\ provider'.readers = provider.readers]_vars

\* The ports a backend can expose: those with a port mapping or a tunnel.
Exposable == DOCKER_AVAILABLE_PORTS

\* C26: get_preview_links returns a link for exactly the listening ports
\* that are exposable and not in the excluded infrastructure set.
C26_PreviewLinks ==
    (provider.last.op = "get_preview_links" /\ provider.last.outcome # "SandboxException")
        => provider.last.links =
              {port \in provider.last.listening :
                  port \in Exposable /\ port \notin EXCLUDED_PREVIEW_PORTS}

\* C27: a cancel request without an active-task marker sets no revoked flag,
\* publishes no broadcast and leaves the marker and the log as they are; with
\* a marker it sets the revoked flag and publishes the broadcast, which a
\* subscribed monitor receives, and still leaves the marker and the log alone.
C27_CancelWithoutStream ==
    [][cancels' = cancels + 1 =>
         /\ taskKey' = taskKey
         /\ stream' = stream
         /\ IF taskKey = NoTask
            THEN /\ revokedKey' = revokedKey
                 /\ monitor' = monitor
                 /\ hist'.cancelled = hist.cancelled
            ELSE /\ revokedKey'
                 /\ hist'.cancelled
                 /\ monitor.pc = "subscribed" => monitor'.pending]_vars

\* A cancel request arrived after the stream had ended and its marker was
\* gone: nothing was flagged or broadcast.
C27_Witness ==
    /\ cancels = 1 /\ ~hist.cancelled /\ ~revokedKey
    /\ taskKey = NoTask
    /\ stream # <<>>

\* The events of the content entries execution t has in the log, in log order.
ContentBy(t) ==
    LET IsContent(en) == en.by = t /\ en.kind = "content"
        es == SelectSeq(stream, IsContent)
    IN  [i \in 1..Len(es) |-> es[i].event]

\* C28: while an execution streams, the content entries it has in the durable
\* log are exactly the events of its accumulator, in the same order.
C28_LogMatchesAccumulator ==
    \A t \in Tasks : exec[t].pc = "streaming" => ContentBy(t) = exec[t].events

C30_ZeroEventsFault ==
    [][\A t \in Tasks :
          (exec[t].pc = "streaming" /\ exec[t].events = <<>> /\ exec'[t].pc = "cleanup")
             => /\ exec'[t].outcome = "FAILED"
                /\ Len(stream') = Len(stream) + 1
                /\ Last(stream').kind = "error" /\ Last(stream').by = t
                /\ Last(stream').text = exec'[t].raised
                /\ exec'[t].raised \in lim.errors \cup {"Stream completed without any events"}
                /\ messages' = [messages EXCEPT ![exec[t].asst].status = "FAILED"]
                /\ hist'.checkpoints = hist.checkpoints
                /\ hist'.finals = hist.finals
                /\ Len(exec') = Len(exec)
                /\ queueKey' = queueKey]_vars

\* After an inline injection emptied the accumulator the stream ended at once:
\* the new message is FAILED with nothing saved, the old one was saved as
\* COMPLETED by the injection.
C30_Witness ==
    \E t \in Tasks :
        /\ exec[t].raised = "Stream completed without any events"
        /\ exec[t].outcome = "FAILED"
        /\ \E i \in 1..Len(hist.injections) :
              /\ hist.injections[i].task = t
              /\ hist.injections[i].new = exec[t].asst
              /\ messages[hist.injections[i].old].status = "COMPLETED"
        /\ messages[exec[t].asst] = [status |-> "FAILED", content |-> <<>>]
        /\ Last(stream).kind = "error"

\* C31: after a queue-injection splice the log holds no content entry of the
\* old message, and the queue_injected marker published for the new message
\* is still in the log.
C31_SpliceOrdering ==
    [][Len(hist'.injections) = Len(hist.injections) + 1 =>
         LET inj == Last(hist'.injections)
         IN  /\ \A i \in 1..Len(stream') :
                   stream'[i].kind = "content" => stream'[i].id > inj.at
             /\ \E i \in 1..Len(stream') :
                   stream'[i].kind = "queue_injected" /\ stream'[i].ref = inj.new]_vars

\* C32: a nonzero exit is raised to the consumer as a ProcessError, a process
\* that cannot be inspected as a CLIConnectionError, exit code 0 raises
\* nothing, each only after every queued chunk was taken; and once the process
\* has ended the consumer's iteration ends.
C32_ExitReporting ==
    /\ [](sock.consumer = "done" =>
             /\ sock.chan = <<>> /\ sock.readerTask = "done"
             /\ sock.raised = CASE sock.exit = "nonzero" -> "ProcessError"
                                [] sock.exit = "gone" -> "CLIConnectionError"
                                [] OTHER -> "")
    /\ (sock.exit # "" /\ sock.consumer = "reading") ~> (sock.consumer = "done")

\* C33: a step of the orchestrator that takes the queued message out of the
\* slot delivers it: its content is written to the transport of the execution
\* as a user turn, or a continuation execution is dispatched with it.
C33_NoQueuedMessageLost ==
    [][(queueKey # <<>> /\ queueKey' = <<>>) =>
         \/ \E t \in Tasks :
               exec'[t].written = Append(exec[t].written, queueKey[1].content)
         \/ /\ Len(exec') = Len(exec) + 1
            /\ Last(exec').cont
            /\ Last(exec').prompt = queueKey[1].content]_vars

RECURSIVE Expected(_, _)
\* The content the committed submissions and edits give the message id:
\* each upsert appended after a newline, each edit replacing what was there.
Expected(ops, id) ==
    IF ops = <<>> THEN <<>>
    ELSE LET before == Expected(SubSeq(ops, 1, Len(ops) - 1), id)
             o == Last(ops)
         IN  IF o.id # id THEN before
             ELSE IF o.op = "update" \/ before = <<>> THEN o.content
             ELSE AppendContent(before, o.content)

\* The messages the pops returned.
Popped == {hist.pops[i][1] : i \in {j \in 1..Len(hist.pops) : hist.pops[j] # <<>>}}

\* C34: under every interleaving of upserts and edits with pops, every
\* committed submission belongs to exactly one message, a popped one or the
\* one in the slot, whose content is what the submissions committed to it
\* make; the slot's message was never popped and no message was popped twice.
C34_UpsertVersusPop ==
    LET held == Popped \cup {queueKey[i] : i \in 1..Len(queueKey)}
    IN  /\ \A i \in 1..Len(hist.committed) :
              Cardinality({m \in held : m.id = hist.committed[i].id}) = 1
        /\ \A m \in held : m.content = Expected(hist.committed, m.id)
        /\ \A i, j \in 1..Len(hist.pops) :
              (i # j /\ hist.pops[i] # <<>> /\ hist.pops[j] # <<>>)
                 => hist.pops[i][1].id # hist.pops[j][1].id
        /\ \A m \in Popped : queueKey # <<>> => queueKey[1].id # m.id

\* A submission that had read the message before it was popped was retried
\* after the pop and is now alone in the slot under a new id.
C34_Witness ==
    /\ Len(hist.pops) >= 1 /\ hist.pops[1] # <<>>
    /\ queueKey # <<>>
    /\ \E c \in Clients :
          /\ upsert[c].pc = "done" /\ upsert[c].attempts = 2
          /\ queueKey[1].content = upsert[c].content

\* C35: an upsert that commits onto a stored message changes only its content
\* (old content, newline, new content) and its attachments (the stored ones
\* followed by the new ones); id, model_id, permission_mode, thinking_mode and
\* queued_at stay those of the first submission, and the response has
\* created = false with the stored id.
C35_UpsertFrame ==
    [][\A c \in Clients :
         (upsert[c].pc = "read" /\ upsert'[c].pc = "done" /\ upsert[c].raw # <<>>) =>
            LET old == queueKey[1]
                new == queueKey'[1]
            IN  /\ queueKey # <<>> /\ queueKey' # <<>>
                /\ new = [old EXCEPT
                            !.content = old.content \o <<"\n">> \o upsert[c].content,
                            !.attachments = old.attachments \o upsert[c].args.attachments]
                /\ upsert'[c].resp.created = FALSE
                /\ upsert'[c].resp.id = old.id]_vars

\* A resubmission with another model, mode and an attachment was committed onto
\* a message that already carried an attachment.
C35_Witness ==
    /\ queueKey # <<>>
    /\ Len(queueKey[1].attachments) = 2
    /\ \E c \in Clients :
          /\ upsert[c].pc = "done" /\ upsert[c].raw # <<>>
          /\ ~upsert[c].resp.created
          /\ upsert[c].resp.id = queueKey[1].id
          /\ upsert[c].args.model_id # queueKey[1].model_id
          /\ upsert[c].args.permission_mode # queueKey[1].permission_mode

\* C36: on every reader connection the ids of the emitted log entries are
\* strictly increasing (so none is emitted twice, the hand-off from the
\* backlog to the live tail included) and a terminal item (complete, error,
\* or the synthetic cancelled one) is the last item emitted.
C36_MonotoneOutput ==
    /\ \A i, j \in 1..Len(reader.out) :
          (i < j /\ reader.out[i].id # 0 /\ reader.out[j].id # 0)
             => reader.out[i].id < reader.out[j].id
    /\ \A i \in 1..Len(reader.out) :
          reader.out[i].event \in TERMINAL_KINDS => i = Len(reader.out)

\* A connection replayed one entry from the backlog, went on with the live
\* tail and ended on the terminal entry, three items in all.
C36_Witness ==
    /\ reader.pc = "done"
    /\ reader.backlog = 1
    /\ Len(reader.out) = 3
    /\ reader.out[3].event \in TERMINAL_KINDS
    /\ reader.out[3].id # 0

\* C37: a reader that connects without a cursor while a newly requested turn
\* waits for its worker to start, every earlier execution being over, receives
\* no entry of the log that an earlier execution published, whenever it
\* connects relative to the start-up.
C37_NoStaleTerminal ==
    [][(/\ ConnectsIn
        /\ reader'.cursor = NoCursor
        /\ \E t \in Tasks :
              /\ exec[t].pc = "queued" /\ ~exec[t].cont
              /\ \A u \in Tasks \ {t} : exec[u].pc = "done")
         => \A k \in 1..Len(reader'.out), i \in 1..Len(stream) :
               stream[i].id = reader'.out[k].id
                  => exec[stream[i].by].pc = "queued"]_vars

\* C38: the messages read_messages yields depend on the stdout text only, not
\* on its split into chunks: once the parser is through the chunks, what it
\* yielded (and whether it raised) is what it yields for the text in one chunk.
C38_ChunkingIndependent ==
    sock.parse.done =>
        LET whole == ParseCliOutput(NoSocket.parse, <<sock.text>>)
        IN  /\ sock.parse.out = whole.out
            /\ sock.parse.error = whole.error

\* C39: a checkpoint whose sync failed, by raising or by a nonzero exit code,
\* leaves no checkpoint directory, is recorded on no message and takes no
\* place among the checkpoints kept.
C39_CheckpointSuccessIsReal ==
    \A name \in sandbox.failed :
       /\ name \notin sandbox.recorded
       /\ \A c \in sandbox.ckpts : c.name # name

\* C40: a scheduled run that created its TaskExecution row in RUNNING state
\* has, once it returned, by whatever exit path, brought the row to SUCCESS
\* or FAILED and deleted the sandbox it created.
C40_RunCleanUp ==
    \A k \in SchedTasks :
       (provider.runs[k].pc = "returned" /\ provider.runs[k].execution # "none")
          => /\ provider.runs[k].execution \in {"SUCCESS", "FAILED"}
             /\ provider.runs[k].box # "created"

====
